---- MODULE Spec2Model ----
(***************************************************************************)
(* Phase Court (infra_scripts/workflow_phase_court.py): the validator that *)
(* judges one phase's evidence document against the phase contract table   *)
(* and the flow-start snapshot, and writes a verdict.                       *)
(*                                                                         *)
(* Text is modelled as a sequence of tokens: " " is one whitespace          *)
(* character, every other token is an unbroken run of non-blank             *)
(* characters.  <<"ok">> is "ok", <<" ", "ok">> is " ok", <<>> is "".       *)
(***************************************************************************)
EXTENDS Integers, Sequences, FiniteSets, TLC

VARIABLES
    files,        \* the filesystem: path -> file
    args,         \* argparse namespace: evidence, output, phase
    payload,      \* the verdict dict built by the last invocation of main
    prev_payload, \* the verdict dict built by the invocation before it
    exit_code,    \* process exit status of the last invocation (-1: none yet)
    raised,       \* the last invocation ended in an uncaught exception
    now,          \* the wall clock, in seconds
    runs,         \* number of invocations of main so far
    pc,           \* the court's position inside write_text: "idle" or "writing"
    seen,         \* what a concurrent reader last found at the output path
    \* the ops CLI (infra_scripts/ops.py)
    ops_args,     \* the command line of the invocation, parsed
    env,          \* the environment variables
    config_file,  \* the content of the file --config names
    ldirs,        \* the local directories that exist
    executed,     \* the commands the last invocation ran by subprocess.run, with their return codes
    started,      \* the remote run directories of the runs started in a tmux session
    summaries,    \* the remote run directories that hold a summary.json
    sessions,     \* the tmux sessions on the remote hosts
    launches,     \* the commands started in a new tmux session, so far
    result,       \* the JSON object the last invocation printed
    ops_rc,       \* process exit status of the last invocation (-1: none yet)
    procs,        \* concurrent vllm start invocations: position and outcome of each
    \* the sweep status aggregator (infra_scripts/sweeps/sweep_status.py)
    out_root,     \* the filesystem under the output root: run id -> entry
    run_ids,      \* the list of run ids given to compute_status
    status,       \* what compute_status returned
    \* the local run directories ops validate and ops report read
    root_dir,     \* what the path --root names: nothing, a file, or a directory's entries
    \* a training run (examples/nanogpt/train.py)
    out_dir,      \* the path the configuration names as out_dir
    out_files,    \* the files of out_dir: name -> what a reader finds
    train         \* the master process: its position, configuration and outcome

court_vars == <<files, args, payload, prev_payload, exit_code, raised>>
io_vars    == <<pc, seen>>
ops_vars   == <<ops_args, env, config_file, ldirs, executed, started, summaries,
               sessions, launches, result, ops_rc>>
tmux_vars  == <<procs>>
sweep_vars == <<out_root, run_ids, status>>
local_vars == <<root_dir>>
train_vars == <<out_dir, out_files, train>>
rest_vars  == <<local_vars, train_vars>>

vars == <<court_vars, io_vars, ops_vars, tmux_vars, sweep_vars, rest_vars, now, runs>>

-----------------------------------------------------------------------------
(* Bounds of the model *)

\* number of places where the input files differ from a compliant flow
MaxEdits == 1
\* number of times the court is invoked on the same arguments
MaxRuns == 2

-----------------------------------------------------------------------------
(* JSON values and Python's conversions of them *)

WS == " "

JStr(s)   == [k |-> "str",   s |-> s,    n |-> 0, e |-> <<>>]
JInt(n)   == [k |-> "int",   s |-> <<>>, n |-> n, e |-> <<>>]
\* a float is kept as its repr and its integral part
JFloat(repr, trunc) == [k |-> "float", s |-> <<repr>>, n |-> trunc, e |-> <<>>]
JBool(b)  == [k |-> "bool",  s |-> <<>>, n |-> IF b THEN 1 ELSE 0, e |-> <<>>]
JNull     == [k |-> "null",  s |-> <<>>, n |-> 0, e |-> <<>>]
JList(e)  == [k |-> "list",  s |-> <<>>, n |-> 0, e |-> e]

\* str(v)
PyStr(v) ==
    CASE v.k = "str"   -> v.s
      [] v.k = "int"   -> <<ToString(v.n)>>
      [] v.k = "float" -> v.s
      [] v.k = "bool"  -> IF v.n = 1 THEN <<"True">> ELSE <<"False">>
      [] v.k = "null"  -> <<"None">>
      [] v.k = "list"  -> IF v.e = <<>> THEN <<"[]">> ELSE <<"[...]">>

\* s.strip()
Strip(s) ==
    LET keep == {i \in 1..Len(s) : s[i] # WS}
    IN  IF keep = {} THEN <<>>
        ELSE LET lo == CHOOSE i \in keep : \A j \in keep : i <= j
                 hi == CHOOSE i \in keep : \A j \in keep : j <= i
             IN  SubSeq(s, lo, hi)

\* the integer literals the modelled texts can spell
IntLiterals == {"0", "1"}
LiteralValue(tok) == IF tok = "0" THEN 0 ELSE 1

\* int(v): [ok |-> FALSE] stands for ValueError / TypeError
PyInt(v) ==
    CASE v.k \in {"int", "float", "bool"} -> [ok |-> TRUE, n |-> v.n]
      [] v.k = "str" ->
            LET t == Strip(v.s)
            IN  IF Len(t) = 1 /\ t[1] \in IntLiterals
                THEN [ok |-> TRUE, n |-> LiteralValue(t[1])]
                ELSE [ok |-> FALSE, n |-> 0]
      [] OTHER -> [ok |-> FALSE, n |-> 0]

\* a JSON document: a dict (o maps its keys to values) or a non-dict value
\* of which only the kind and the truth value matter to the court
JDict(o)          == [k |-> "dict", o |-> o, truthy |-> DOMAIN o # {}]
JOther(kind, tru) == [k |-> kind,  o |-> <<>>, truthy |-> tru]

\* d.get(key, default)
Get(o, key, default) == IF key \in DOMAIN o THEN o[key] ELSE default

\* str(d.get(key, ""))
GetStr(o, key) == PyStr(Get(o, key, JStr(<<>>)))

\* files
Absent     == [st |-> "absent"]
Unreadable == [st |-> "garbage"]          \* exists, json.loads(read_text()) raises
JsonFile(doc) == [st |-> "json", doc |-> doc]

-----------------------------------------------------------------------------
(* The phase contract table *)

PHASE_CONTRACTS ==
    [P00 |-> [intent   |-> "Precheck constitutional prerequisites before any remote mutation.",
              laws     |-> <<"LAW_1_CANONICAL_CONFIG", "LAW_2_SINGLE_CANONICAL_LIFECYCLE",
                             "LAW_4_NONINTERACTIVE_SAFETY", "LAW_6_PROVENANCE",
                             "LAW_9_PHASE_END_CONSTITUTIONAL_VALIDATION">>,
              commands |-> <<"flow-precheck">>],
     P10 |-> [intent   |-> "Provision pod deterministically or explicitly mark policy skip.",
              laws     |-> <<"LAW_3_TARGET_RESOLUTION", "LAW_4_NONINTERACTIVE_SAFETY",
                             "LAW_5_PHASE_CONTRACT", "LAW_6_PROVENANCE",
                             "LAW_9_PHASE_END_CONSTITUTIONAL_VALIDATION">>,
              commands |-> <<"pod-up", "provision-policy">>],
     P20 |-> [intent   |-> "Resolve and lock a legal execution target for remaining phases.",
              laws     |-> <<"LAW_3_TARGET_RESOLUTION", "LAW_5_PHASE_CONTRACT",
                             "LAW_6_PROVENANCE", "LAW_9_PHASE_END_CONSTITUTIONAL_VALIDATION">>,
              commands |-> <<"target-bind">>],
     P30 |-> [intent   |-> "Prove remote target is reachable and pod is ready.",
              laws     |-> <<"LAW_5_PHASE_CONTRACT", "LAW_6_PROVENANCE",
                             "LAW_9_PHASE_END_CONSTITUTIONAL_VALIDATION">>,
              commands |-> <<"pod-status">>],
     P40 |-> [intent   |-> "Satisfy bootstrap prerequisites and helper initialization policy.",
              laws     |-> <<"LAW_5_PHASE_CONTRACT", "LAW_6_PROVENANCE",
                             "LAW_9_PHASE_END_CONSTITUTIONAL_VALIDATION">>,
              commands |-> <<"bootstrap">>],
     P50 |-> [intent   |-> "Checkout repository and validate torch/data contracts for training readiness.",
              laws     |-> <<"LAW_5_PHASE_CONTRACT", "LAW_6_PROVENANCE",
                             "LAW_8_DOC_SCRIPT_CONSISTENCY",
                             "LAW_9_PHASE_END_CONSTITUTIONAL_VALIDATION">>,
              commands |-> <<"checkout">>],
     P60 |-> [intent   |-> "Start, resume-check, or policy-skip sweep in a declared mode.",
              laws     |-> <<"LAW_5_PHASE_CONTRACT", "LAW_6_PROVENANCE",
                             "LAW_9_PHASE_END_CONSTITUTIONAL_VALIDATION">>,
              commands |-> <<"sweep-start", "sweep-status", "sweep-policy">>],
     P70 |-> [intent   |-> "Monitor sweep completion state via wait or snapshot path.",
              laws     |-> <<"LAW_5_PHASE_CONTRACT", "LAW_6_PROVENANCE",
                             "LAW_9_PHASE_END_CONSTITUTIONAL_VALIDATION">>,
              commands |-> <<"sweep-wait", "sweep-status">>],
     P80 |-> [intent   |-> "Fetch artifacts according to explicit fetch policy.",
              laws     |-> <<"LAW_5_PHASE_CONTRACT", "LAW_6_PROVENANCE",
                             "LAW_9_PHASE_END_CONSTITUTIONAL_VALIDATION">>,
              commands |-> <<"fetch-policy", "fetch-all", "fetch-run">>],
     P90 |-> [intent   |-> "Apply explicit teardown policy without implicit destruction.",
              laws     |-> <<"LAW_7_EXPLICIT_DESTRUCTION", "LAW_5_PHASE_CONTRACT",
                             "LAW_6_PROVENANCE", "LAW_9_PHASE_END_CONSTITUTIONAL_VALIDATION">>,
              commands |-> <<"teardown-policy", "pod-delete">>],
     P99 |-> [intent   |-> "Emit final constitutional summary only after all prior phases are known.",
              laws     |-> <<"LAW_5_PHASE_CONTRACT", "LAW_6_PROVENANCE",
                             "LAW_9_PHASE_END_CONSTITUTIONAL_VALIDATION">>,
              commands |-> <<"flow-summary">>]]

Phases == DOMAIN PHASE_CONTRACTS

Range(q) == {q[i] : i \in 1..Len(q)}

\* {str(v) for v in phase_contract["laws"]}
expected_laws(p) == Range(PHASE_CONTRACTS[p].laws)

\* {str(v) for v in phase_contract["commands"]}
allowed_commands(p) == Range(PHASE_CONTRACTS[p].commands)

\* the fixed sentinel of intent_mode
INTENT_MODE == "mandated_contract_or_die"

required_fields ==
    <<"flow_id", "phase_id", "active_config_path", "active_config_sha256",
      "command_name", "command_rc", "phase_status", "transport_hint",
      "intent_mode", "contract_intent", "applicable_laws", "flow_start_artifact">>

\* the phases whose evidence is compared with the flow start's target
TARGET_BOUND_PHASES == {"P20", "P30", "P40", "P50", "P60", "P70", "P80", "P90", "P99"}

-----------------------------------------------------------------------------
(* Python sets of law ids: iteration order and sorted() *)

\* the law ids in the order of Python's string comparison
LawOrder ==
    <<"LAW_1_CANONICAL_CONFIG", "LAW_2_SINGLE_CANONICAL_LIFECYCLE",
      "LAW_3_TARGET_RESOLUTION", "LAW_4_NONINTERACTIVE_SAFETY",
      "LAW_5_PHASE_CONTRACT", "LAW_6_PROVENANCE", "LAW_7_EXPLICIT_DESTRUCTION",
      "LAW_8_DOC_SCRIPT_CONSISTENCY", "LAW_9_PHASE_END_CONSTITUTIONAL_VALIDATION">>

LawRanks == [l \in Range(LawOrder) |-> CHOOSE i \in 1..Len(LawOrder) : LawOrder[i] = l]

LawRank(l) == LawRanks[l]

\* string hashing is salted per process: the order in which a set of strings
\* is iterated is one the process does not control
HashSeeds == {"asc", "desc"}

RECURSIVE SetIter(_, _)
SetIter(S, seed) ==
    IF S = {} THEN <<>>
    ELSE LET x == IF seed = "asc"
                  THEN CHOOSE a \in S : \A b \in S : LawRank(a) <= LawRank(b)
                  ELSE CHOOSE a \in S : \A b \in S : LawRank(b) <= LawRank(a)
         IN  <<x>> \o SetIter(S \ {x}, seed)

RemoveAt(q, i) == SubSeq(q, 1, i - 1) \o SubSeq(q, i + 1, Len(q))

\* sorted() left out: the iteration order of the set shows
unsorted(q) == q

\* sorted(iterable of law ids)
RECURSIVE sorted(_)
sorted(q) ==
    IF q = <<>> THEN <<>>
    ELSE LET i == CHOOSE a \in 1..Len(q) :
                     \A b \in 1..Len(q) : LawRank(q[a]) <= LawRank(q[b])
         IN  <<q[i]>> \o sorted(RemoveAt(q, i))

-----------------------------------------------------------------------------
(* validate_evidence: an accumulation of checks, each adding violations    *)
(* (a list) and laws (a set).  o is the evidence dict.                      *)

None == [v |-> <<>>, l |-> {}]
Violation(code, law) == [v |-> <<code>>, l |-> {law}]

\* text of an argument or table string
Text(str) == IF str = "" THEN <<>> ELSE <<str>>

\* for field in required_fields: if field not in evidence
check_required_fields(o) ==
    LET absent == SelectSeq(required_fields, LAMBDA f : f \notin DOMAIN o)
    IN  [v |-> [i \in 1..Len(absent) |-> "missing_field:" \o absent[i]],
         l |-> IF absent = <<>> THEN {} ELSE {"LAW_6_PROVENANCE"}]

\* phase_id = str(evidence.get("phase_id", ""))
phase_id_of(o) == GetStr(o, "phase_id")

check_phase_identity(o, expected_phase) ==
    IF expected_phase # "" /\ phase_id_of(o) # Text(expected_phase)
    THEN Violation("phase_mismatch", "LAW_5_PHASE_CONTRACT")
    ELSE None

\* intent_mode compared without .strip()
check_intent_mode_verbatim(o) ==
    IF GetStr(o, "intent_mode") # Text(INTENT_MODE)
    THEN Violation("intent_mode_violation", "LAW_5_PHASE_CONTRACT")
    ELSE None

check_intent_mode(o) ==
    IF Strip(GetStr(o, "intent_mode")) # Text(INTENT_MODE)
    THEN Violation("intent_mode_violation", "LAW_5_PHASE_CONTRACT")
    ELSE None

check_contract_intent(o, expected_phase) ==
    IF Strip(GetStr(o, "contract_intent")) # Text(PHASE_CONTRACTS[expected_phase].intent)
    THEN Violation("contract_intent_mismatch", "LAW_5_PHASE_CONTRACT")
    ELSE None

check_command_whitelist(o, expected_phase) ==
    IF Strip(GetStr(o, "command_name")) \notin
           {Text(c) : c \in allowed_commands(expected_phase)}
    THEN Violation("intent_command_mismatch", "LAW_5_PHASE_CONTRACT")
    ELSE None

\* the declared laws taken without .strip()
applicable_law_set_verbatim(applicable_laws) ==
    {PyStr(applicable_laws.e[i]) : i \in 1..Len(applicable_laws.e)} \ {<<>>}

\* {str(v).strip() for v in applicable_laws if str(v).strip()}
applicable_law_set(applicable_laws) ==
    {Strip(PyStr(applicable_laws.e[i])) : i \in 1..Len(applicable_laws.e)} \ {<<>>}

\* sorted(expected_laws - applicable_law_set)
missing_laws(declared, expected_phase, seed) ==
    sorted(SetIter({l \in expected_laws(expected_phase) : Text(l) \notin declared}, seed))

check_law_coverage(o, expected_phase, seed) ==
    LET applicable_laws == Get(o, "applicable_laws", JNull)
        is_list  == applicable_laws.k = "list"
        declared == IF is_list THEN applicable_law_set(applicable_laws) ELSE {}
        missing  == missing_laws(declared, expected_phase, seed)
    IN  [v |-> (IF is_list THEN <<>> ELSE <<"applicable_laws_not_list">>)
               \o [i \in 1..Len(missing) |-> "missing_applicable_law:" \o missing[i]],
         l |-> (IF is_list THEN {} ELSE {"LAW_6_PROVENANCE"})
               \cup (IF missing = <<>> THEN {} ELSE expected_laws(expected_phase))]

check_phase_status(o) ==
    IF GetStr(o, "phase_status") # <<"ok">>
    THEN Violation("phase_status_not_ok", "LAW_5_PHASE_CONTRACT")
    ELSE None

\* a return code that does not convert taken as 0
command_rc_of_lenient(o) ==
    LET r == PyInt(Get(o, "command_rc", JInt(1)))
    IN  IF r.ok THEN r.n ELSE 0

\* try: int(evidence.get("command_rc", 1)) except Exception: 1
command_rc_of(o) ==
    LET r == PyInt(Get(o, "command_rc", JInt(1)))
    IN  IF r.ok THEN r.n ELSE 1

check_command_rc(o) ==
    IF command_rc_of(o) # 0
    THEN Violation("command_rc_non_zero", "LAW_5_PHASE_CONTRACT")
    ELSE None

\* config_sha = str(evidence.get("active_config_sha256", "")).strip()
config_sha_of(o) == Strip(GetStr(o, "active_config_sha256"))

\* the violation appended, laws.add forgotten
check_config_sha_no_law(o) ==
    IF config_sha_of(o) = <<>>
    THEN [v |-> <<"missing_config_sha256">>, l |-> {}]
    ELSE None

check_config_sha(o) ==
    IF config_sha_of(o) = <<>>
    THEN Violation("missing_config_sha256", "LAW_6_PROVENANCE")
    ELSE None

\* Path(raw): the file a path text names
FileAt(raw) ==
    IF Len(raw) = 1 /\ raw[1] \in DOMAIN files THEN files[raw[1]] ELSE Absent

\* flow-start linkage; payload is flow_start_payload ({} unless it loads)
load_flow_start(o) ==
    LET flow_start_raw == Strip(GetStr(o, "flow_start_artifact"))
        f == FileAt(flow_start_raw)
        empty == JDict(<<>>)
    IN  IF flow_start_raw = <<>>
        THEN [v |-> <<"missing_flow_start_artifact">>, l |-> {"LAW_6_PROVENANCE"},
              payload |-> empty]
        ELSE IF f.st = "absent"
        THEN [v |-> <<"flow_start_missing">>, l |-> {"LAW_6_PROVENANCE"},
              payload |-> empty]
        ELSE IF f.st = "garbage"
        THEN [v |-> <<"flow_start_invalid_json">>, l |-> {"LAW_6_PROVENANCE"},
              payload |-> empty]
        ELSE [v |-> <<>>, l |-> {}, payload |-> f.doc]

check_flow_id(o, start) ==
    LET start_flow_id == Strip(GetStr(start, "flow_id"))
    IN  IF start_flow_id # <<>> /\ start_flow_id # Strip(GetStr(o, "flow_id"))
        THEN Violation("flow_id_mismatch", "LAW_6_PROVENANCE")
        ELSE None

\* drift looked for only when the evidence carries no hash
check_config_drift_inverted(o, start) ==
    LET start_config_sha == Strip(GetStr(start, "active_config_sha256"))
        config_sha == config_sha_of(o)
    IN  IF start_config_sha # <<>> /\ config_sha = <<>>
        THEN Violation("config_sha_drift", "LAW_1_CANONICAL_CONFIG")
        ELSE None

check_config_drift(o, start) ==
    LET start_config_sha == Strip(GetStr(start, "active_config_sha256"))
        config_sha == config_sha_of(o)
    IN  IF start_config_sha # <<>> /\ config_sha # <<>> /\ start_config_sha # config_sha
        THEN Violation("config_sha_drift", "LAW_1_CANONICAL_CONFIG")
        ELSE None

\* phase_id in {"P20", ..., "P99"}: the phase_id the evidence declares
target_bound(o) == phase_id_of(o) \in {Text(p) : p \in TARGET_BOUND_PHASES}

check_target_drift(o, start) ==
    LET start_target   == Strip(GetStr(start, "lium_target"))
        current_target == Strip(GetStr(o, "lium_target"))
    IN  IF /\ target_bound(o)
           /\ start_target # <<>> /\ current_target # <<>>
           /\ start_target # current_target
        THEN Violation("target_drift_from_flow_start", "LAW_3_TARGET_RESOLUTION")
        ELSE None

check_fallback_drift(o, start) ==
    LET start_fallback   == Strip(GetStr(start, "ops_default_host"))
        current_fallback == Strip(GetStr(o, "ops_default_host"))
    IN  IF /\ target_bound(o)
           /\ start_fallback # <<>> /\ current_fallback # <<>>
           /\ start_fallback # current_fallback
        THEN Violation("fallback_host_drift_from_flow_start", "LAW_3_TARGET_RESOLUTION")
        ELSE None

check_target_resolved(o) ==
    IF /\ phase_id_of(o) = <<"P20">>
       /\ Strip(GetStr(o, "lium_target")) = <<>>
       /\ Strip(GetStr(o, "ops_default_host")) = <<>>
    THEN Violation("target_not_resolved", "LAW_3_TARGET_RESOLUTION")
    ELSE None

check_repo_url(o) ==
    IF /\ phase_id_of(o) \in {<<"P50">>, <<"P60">>}
       /\ Strip(GetStr(o, "repo_url")) = <<>>
    THEN Violation("repo_url_missing", "LAW_5_PHASE_CONTRACT")
    ELSE None

check_teardown_mode(o) ==
    IF /\ phase_id_of(o) = <<"P90">>
       /\ Strip(GetStr(o, "teardown_mode")) \notin {<<"keep">>, <<"delete">>}
    THEN Violation("invalid_teardown_mode", "LAW_7_EXPLICIT_DESTRUCTION")
    ELSE None

\* violations.append / laws.add over a list of check results
RECURSIVE Accumulate(_)
Accumulate(checks) ==
    IF checks = <<>> THEN None
    ELSE LET rest == Accumulate(Tail(checks))
         IN  [v |-> Head(checks).v \o rest.v, l |-> Head(checks).l \cup rest.l]

\* evidence.get / "in" on a value that is not a dict: TypeError, AttributeError
evidence_raises(evidence) == evidence.k # "dict"

\* flow_start_payload.get on a truthy value that is not a dict: AttributeError
flow_start_raises(start) == start.truthy /\ start.k # "dict"

validate_evidence(evidence, expected_phase, seed) ==
    IF expected_phase \notin Phases
    THEN [raised |-> FALSE, violations |-> <<"unknown_phase_contract">>,
          laws |-> sorted(SetIter({"LAW_5_PHASE_CONTRACT"}, seed))]
    ELSE IF evidence_raises(evidence)
    THEN [raised |-> TRUE, violations |-> <<>>, laws |-> <<>>]
    ELSE
    LET o  == evidence.o
        fs == load_flow_start(o)
    IN  IF flow_start_raises(fs.payload)
        THEN [raised |-> TRUE, violations |-> <<>>, laws |-> <<>>]
        ELSE
        LET start == fs.payload.o
            acc == Accumulate(
                <<check_required_fields(o),
                  check_phase_identity(o, expected_phase),
                  check_intent_mode(o),
                  check_contract_intent(o, expected_phase),
                  check_command_whitelist(o, expected_phase),
                  check_law_coverage(o, expected_phase, seed),
                  check_phase_status(o),
                  check_command_rc(o),
                  check_config_sha(o),
                  [v |-> fs.v, l |-> fs.l]>>
                \o (IF fs.payload.truthy
                    THEN <<check_flow_id(o, start),
                           check_config_drift(o, start),
                           check_target_drift(o, start),
                           check_fallback_drift(o, start)>>
                    ELSE <<>>)
                \o <<check_target_resolved(o),
                     check_repo_url(o),
                     check_teardown_mode(o)>>)
        IN  [raised |-> FALSE, violations |-> acc.v,
             laws |-> sorted(SetIter(acc.l, seed))]

-----------------------------------------------------------------------------
(* main *)

\* now_utc(), as text
now_utc(t) == <<ToString(t)>>

\* json.dumps(payload): the verdict as the JSON document written to the file
VerdictDoc(pl) ==
    LET strs(q) == JList([i \in 1..Len(q) |-> JStr(<<q[i]>>)])
        common ==
            [phase         |-> JStr(Text(pl.phase)),
             status        |-> JStr(<<pl.status>>),
             pass          |-> JBool(pl.pass),
             violations    |-> strs(pl.violations),
             violated_laws |-> strs(pl.violated_laws),
             checked_at    |-> JStr(now_utc(pl.checked_at)),
             engine        |-> JStr(<<pl.engine>>),
             remediation   |-> JStr(<<pl.remediation>>)]
    IN  JDict(IF "evidence" \in DOMAIN pl
              THEN [x \in DOMAIN common \cup {"evidence"} |->
                       IF x = "evidence" THEN JStr(<<pl.evidence>>) ELSE common[x]]
              ELSE common)

\* the payload main builds when the evidence file does not exist
missing_evidence_payload(phase, t) ==
    [phase         |-> phase,
     status        |-> "unverified",
     pass          |-> FALSE,
     violations    |-> <<"missing_evidence_file">>,
     violated_laws |-> <<"LAW_6_PROVENANCE">>,
     checked_at    |-> t,
     engine        |-> "workflow_phase_court.py",
     remediation   |-> "re-run the failed phase to regenerate evidence"]

\* unparseable evidence reported as judged and failed
invalid_evidence_payload_as_fail(phase, t) ==
    [phase         |-> phase,
     status        |-> "fail",
     pass          |-> FALSE,
     violations    |-> <<"invalid_evidence_json">>,
     violated_laws |-> <<"LAW_6_PROVENANCE">>,
     checked_at    |-> t,
     engine        |-> "workflow_phase_court.py",
     remediation   |-> "fix evidence writer and re-run flow"]

\* the payload main builds when the evidence file does not load as JSON
invalid_evidence_payload(phase, t) ==
    [phase         |-> phase,
     status        |-> "unverified",
     pass          |-> FALSE,
     violations    |-> <<"invalid_evidence_json">>,
     violated_laws |-> <<"LAW_6_PROVENANCE">>,
     checked_at    |-> t,
     engine        |-> "workflow_phase_court.py",
     remediation   |-> "fix evidence writer and re-run flow"]

\* the payload main builds from the result of validate_evidence
judged_payload(phase, evidence_path, violations, violated_laws, t) ==
    LET ok == Len(violations) = 0
    IN  [phase         |-> phase,
         status        |-> IF ok THEN "pass" ELSE "fail",
         pass          |-> ok,
         violations    |-> violations,
         violated_laws |-> violated_laws,
         checked_at    |-> t,
         engine        |-> "workflow_phase_court.py",
         evidence      |-> evidence_path,
         remediation   |-> IF ~ok THEN "inspect phase verdict artifacts and rerun flow"
                           ELSE "none"]

\* the value of payload before main has built one
NoPayload == [status |-> "none"]

\* output_path.write_text(json.dumps(payload, ...) + "\n"); return 0
WriteVerdict(pl) ==
    /\ files' = [files EXCEPT ![args.output] = JsonFile(VerdictDoc(pl))]
    /\ payload' = pl
    /\ exit_code' = 0
    /\ raised' = FALSE

\* an uncaught exception: traceback, exit status 1, nothing written
Traceback ==
    /\ files' = files
    /\ payload' = NoPayload
    /\ exit_code' = 1
    /\ raised' = TRUE

\* the state outside the court's process and files
outside_vars == <<ops_vars, tmux_vars, sweep_vars, rest_vars>>
other_vars == <<io_vars, outside_vars>>

\* one invocation of the court, a second after the one before; seed is the
\* process's hash salt
main(seed) ==
    /\ runs < MaxRuns
    /\ runs' = runs + 1
    /\ now' = now + 1
    /\ prev_payload' = payload
    /\ UNCHANGED args
    /\ UNCHANGED other_vars
    /\ LET evidence_file == files[args.evidence]
       IN  IF evidence_file.st = "absent"
           THEN WriteVerdict(missing_evidence_payload(args.phase, now'))
           ELSE IF evidence_file.st = "garbage"
           THEN WriteVerdict(invalid_evidence_payload(args.phase, now'))
           ELSE \E r \in {validate_evidence(evidence_file.doc, args.phase, seed)} :
                    IF r.raised
                    THEN Traceback
                    ELSE WriteVerdict(judged_payload(args.phase, args.evidence,
                                                     r.violations, r.laws, now'))

-----------------------------------------------------------------------------
(* The inputs: what the phase executor and the flow initialisation leave on *)
(* disk.  A scenario is the evidence file and the flow-start file; the      *)
(* scenarios drawn are those at most MaxEdits edits away from the files of  *)
(* a compliant run of phase q.                                              *)

EVIDENCE_PATH   == "evidence.json"
FLOW_START_PATH == "flow_start.json"
OUTPUT_PATH     == "verdict.json"
Paths == {EVIDENCE_PATH, FLOW_START_PATH, OUTPUT_PATH}

\* --phase values that are not in the table
UnknownPhases == {"P15", ""}

\* the evidence a compliant run of phase q writes
CompliantEvidence(q) ==
    [flow_id              |-> JStr(<<"flowA">>),
     phase_id             |-> JStr(<<q>>),
     active_config_path   |-> JStr(<<"config.py">>),
     active_config_sha256 |-> JStr(<<"abc">>),
     command_name         |-> JStr(<<PHASE_CONTRACTS[q].commands[1]>>),
     command_rc           |-> JInt(0),
     phase_status         |-> JStr(<<"ok">>),
     transport_hint       |-> JStr(<<"ssh">>),
     intent_mode          |-> JStr(<<INTENT_MODE>>),
     contract_intent      |-> JStr(<<PHASE_CONTRACTS[q].intent>>),
     applicable_laws      |-> JList([i \in 1..Len(PHASE_CONTRACTS[q].laws) |->
                                        JStr(<<PHASE_CONTRACTS[q].laws[i]>>)]),
     flow_start_artifact  |-> JStr(<<FLOW_START_PATH>>),
     lium_target          |-> JStr(<<"targetA">>),
     ops_default_host     |-> JStr(<<>>),
     repo_url             |-> JStr(<<"repo">>),
     teardown_mode        |-> JStr(<<"keep">>)]

\* the snapshot taken at flow start
CompliantFlowStart ==
    [flow_id              |-> JStr(<<"flowA">>),
     active_config_sha256 |-> JStr(<<"abc">>),
     lium_target          |-> JStr(<<"targetA">>),
     ops_default_host     |-> JStr(<<"hostA">>)]

\* other values an evidence field can hold
EvidenceValues(q, f) ==
    LET laws == PHASE_CONTRACTS[q].laws
        law(i) == JStr(<<laws[i]>>)
        full == [i \in 1..Len(laws) |-> law(i)]
        cmds == PHASE_CONTRACTS[q].commands
    IN  CASE f = "flow_id" -> {JStr(<<"flowB">>), JStr(<<"flowA", WS>>)}
          [] f = "phase_id" ->
                {JStr(<<r>>) : r \in {"P00", "P20", "P50", "P90"} \ {q}}
                \cup {JStr(<<q, WS>>)}
          [] f = "active_config_path" -> {JNull}
          [] f = "active_config_sha256" ->
                {JStr(<<"def">>), JStr(<<>>), JStr(<<WS>>), JStr(<<"abc", WS>>), JNull}
          [] f = "command_name" ->
                {JStr(<<cmds[i]>>) : i \in 2..Len(cmds)}
                \cup {JStr(<<WS, cmds[1]>>), JStr(<<"shell">>)}
          [] f = "command_rc" ->
                {JInt(1), JStr(<<"0">>), JStr(<<"0", WS>>), JStr(<<"oops">>),
                 JFloat("0.5", 0), JBool(FALSE), JNull}
          [] f = "phase_status" -> {JStr(<<"failed">>), JStr(<<"ok", WS>>)}
          [] f = "transport_hint" -> {JNull}
          [] f = "intent_mode" ->
                {JStr(<<WS, INTENT_MODE>>), JStr(<<"best_effort">>)}
          [] f = "contract_intent" ->
                {JStr(<<PHASE_CONTRACTS[q].intent, WS>>), JStr(<<"Do what is needed.">>)}
          [] f = "applicable_laws" ->
                {JList(RemoveAt(full, i)) : i \in 1..Len(laws)}
                \cup {JList(full \o <<JStr(<<"LAW_0_EXTRA">>)>>),
                      JList([full EXCEPT ![1] = JStr(<<WS, laws[1]>>)]),
                      JList([full EXCEPT ![1] = JStr(<<WS>>)]),
                      JList([i \in 1..Len(laws) |-> law(Len(laws) + 1 - i)]),
                      JList(<<>>),
                      JStr(<<laws[1]>>),
                      JNull}
          [] f = "flow_start_artifact" ->
                {JStr(<<>>), JStr(<<"nowhere.json">>), JStr(<<WS, FLOW_START_PATH>>)}
          [] f = "lium_target" ->
                {JStr(<<"targetB">>), JStr(<<>>), JStr(<<"targetA", WS>>), JNull}
          [] f = "ops_default_host" -> {JStr(<<"hostA">>), JStr(<<"hostB">>)}
          [] f = "repo_url" -> {JStr(<<>>), JStr(<<WS>>), JNull}
          [] f = "teardown_mode" ->
                {JStr(<<"delete">>), JStr(<<"purge">>), JStr(<<"keep", WS>>), JStr(<<>>)}

\* other values a flow-start field can hold
FlowStartValues(f) ==
    CASE f = "flow_id" -> {JStr(<<"flowB">>), JStr(<<>>), JStr(<<"flowA", WS>>)}
      [] f = "active_config_sha256" -> {JStr(<<"def">>), JStr(<<>>)}
      [] f = "lium_target" -> {JStr(<<"targetB">>), JStr(<<>>)}
      [] f = "ops_default_host" -> {JStr(<<"hostB">>), JStr(<<>>)}

\* a dict without one key
Without(o, f) == [x \in DOMAIN o \ {f} |-> o[x]]

\* the dicts one edit away from o: a key deleted, or given another value
\* (values maps each key to the other values it can hold)
EditedDicts(o, values) ==
    {Without(o, f) : f \in DOMAIN o}
    \cup UNION {{[o EXCEPT ![f] = v] : v \in values[f]} : f \in DOMAIN o}

\* the contents a file can have that are not a JSON object
NonDictFiles ==
    {Absent, Unreadable,
     JsonFile(JOther("list", TRUE)), JsonFile(JOther("str", TRUE)),
     JsonFile(JOther("int", TRUE)), JsonFile(JOther("null", FALSE)),
     JsonFile(JDict(<<>>))}

\* the files one edit away from file f
EditedFiles(f, values) ==
    NonDictFiles
    \cup (IF f.st = "json" /\ f.doc.k = "dict" /\ f.doc.truthy
          THEN {JsonFile(JDict(o)) : o \in EditedDicts(f.doc.o, values)}
          ELSE {})

\* the scenarios one edit away from scenario sc
EditedScenarios(q, sc) ==
    LET ev == [f \in DOMAIN CompliantEvidence(q) |-> EvidenceValues(q, f)]
        fs == [f \in DOMAIN CompliantFlowStart |-> FlowStartValues(f)]
    IN  {[sc EXCEPT !.evidence = f] : f \in EditedFiles(sc.evidence, ev)}
        \cup {[sc EXCEPT !.flow_start = f] : f \in EditedFiles(sc.flow_start, fs)}

RECURSIVE Scenarios(_, _)
Scenarios(q, n) ==
    IF n = 0
    THEN {[evidence   |-> JsonFile(JDict(CompliantEvidence(q))),
           flow_start |-> JsonFile(JDict(CompliantFlowStart))]}
    ELSE LET less == Scenarios(q, n - 1)
         IN  less \cup UNION {EditedScenarios(q, sc) : sc \in less}

\* the --phase values the court may be given with the evidence of phase q:
\* q itself; any value at all with the evidence of P00 and of P20
ArgPhases(q) ==
    {q} \cup (IF q \in {"P00", "P20"} THEN Phases \cup UnknownPhases ELSE {})

-----------------------------------------------------------------------------
(* The specification *)

\* nobody reads the output path while the court runs
NotRead  == [st |-> "unread"]
NoReader == pc = "idle" /\ seen = NotRead

\* ops validate and ops report are not run, and no training run is made
NoLocal == root_dir = <<>>
NoTrain == out_dir = <<>> /\ out_files = <<>> /\ train = <<>>

\* the other programs are not run
NoOutside ==
    /\ NoLocal /\ NoTrain
    /\ ops_args = <<>> /\ env = <<>> /\ config_file = <<>> /\ ldirs = {}
    /\ executed = <<>> /\ started = {} /\ summaries = {} /\ sessions = {}
    /\ launches = <<>>
    /\ result = <<>> /\ ops_rc = -1
    /\ procs = <<>>
    /\ out_root = <<>> /\ run_ids = <<>> /\ status = <<>>

Init ==
    \E q \in Phases :
    \E sc \in Scenarios(q, MaxEdits) :
    \E p \in ArgPhases(q) :
        /\ args = [evidence |-> EVIDENCE_PATH, output |-> OUTPUT_PATH, phase |-> p]
        /\ files = [x \in Paths |->
                       CASE x = EVIDENCE_PATH   -> sc.evidence
                         [] x = FLOW_START_PATH -> sc.flow_start
                         [] OTHER               -> Absent]
        /\ payload = NoPayload
        /\ prev_payload = NoPayload
        /\ exit_code = -1
        /\ raised = FALSE
        /\ now = 0
        /\ runs = 0
        /\ NoReader
        /\ NoOutside

Next == \E seed \in HashSeeds : main(seed)

Spec == Init /\ [][Next]_vars

-----------------------------------------------------------------------------
(* The court beside a reader of the output path.  write_text opens the      *)
(* output path for writing, which empties it, and then writes the document  *)
(* and closes; a reader can run between the two.  --output may name any of  *)
(* the paths.                                                               *)

\* the file between open(path, "w") and the write: it exists and is empty
Truncated == [st |-> "truncated"]

\* the verdict written over the evidence file
output_path_as_evidence == args.evidence

\* output_path = Path(args.output)
output_path == args.output

\* write_text, first half: open(output_path, "w")
open_for_write(pl) ==
    /\ files' = [files EXCEPT ![output_path] = Truncated]
    /\ payload' = pl
    /\ pc' = "writing"
    /\ raised' = FALSE
    /\ UNCHANGED <<exit_code, seen>>

\* main up to the opening of the output file
main_open(seed) ==
    /\ pc = "idle"
    /\ runs < MaxRuns
    /\ runs' = runs + 1
    /\ now' = now + 1
    /\ prev_payload' = payload
    /\ UNCHANGED <<args, outside_vars>>
    /\ LET evidence_file == files[args.evidence]
       IN  IF evidence_file.st = "absent"
           THEN open_for_write(missing_evidence_payload(args.phase, now'))
           ELSE IF evidence_file.st \in {"garbage", "truncated"}
           THEN open_for_write(invalid_evidence_payload(args.phase, now'))
           ELSE \E r \in {validate_evidence(evidence_file.doc, args.phase, seed)} :
                    IF r.raised
                    THEN Traceback /\ UNCHANGED io_vars
                    ELSE open_for_write(judged_payload(args.phase, args.evidence,
                                                       r.violations, r.laws, now'))

\* write_text, second half: write the document, close; return 0
main_close ==
    /\ pc = "writing"
    /\ files' = [files EXCEPT ![output_path] = JsonFile(VerdictDoc(payload))]
    /\ pc' = "idle"
    /\ exit_code' = 0
    /\ UNCHANGED <<args, payload, prev_payload, raised, seen, now, runs, outside_vars>>

\* another process reads the output path
read_output ==
    /\ seen' = files[args.output]
    /\ UNCHANGED <<court_vars, pc, now, runs, outside_vars>>

\* what is on disk when the court is called: the files of a compliant run of
\* phase q, or no evidence, or evidence that does not load
IOScenarios(q) ==
    Scenarios(q, 0)
    \cup {[evidence |-> f, flow_start |-> JsonFile(JDict(CompliantFlowStart))] :
             f \in {Absent, Unreadable}}

InitIO ==
    \E q \in Phases :
    \E sc \in IOScenarios(q) :
    \E p \in ArgPhases(q) :
    \E out \in Paths :
        /\ args = [evidence |-> EVIDENCE_PATH, output |-> out, phase |-> p]
        /\ files = [x \in Paths |->
                       CASE x = EVIDENCE_PATH   -> sc.evidence
                         [] x = FLOW_START_PATH -> sc.flow_start
                         [] OTHER               -> Absent]
        /\ payload = NoPayload
        /\ prev_payload = NoPayload
        /\ exit_code = -1
        /\ raised = FALSE
        /\ now = 0
        /\ runs = 0
        /\ NoReader
        /\ NoOutside

NextIO ==
    \/ \E seed \in HashSeeds : main_open(seed)
    \/ main_close
    \/ read_output

SpecIO == InitIO /\ [][NextIO]_vars

-----------------------------------------------------------------------------
(* What the claims speak of *)

\* the last invocation of main returned, having written a verdict
Judged == runs > 0 /\ ~raised

Evidence == files[args.evidence]
EvidenceIsDict == Evidence.st = "json" /\ Evidence.doc.k = "dict"
E == Evidence.doc.o

\* the last invocation ran every check of validate_evidence
Validated == Judged /\ EvidenceIsDict /\ args.phase \in Phases

Has(code) == \E i \in 1..Len(payload.violations) : payload.violations[i] = code
HasLaw(law) == \E i \in 1..Len(payload.violated_laws) : payload.violated_laws[i] = law
Count(code) == Cardinality({i \in 1..Len(payload.violations) : payload.violations[i] = code})

\* the file flow_start_artifact names, and its content when it is a JSON object
FlowStartFile == FileAt(Strip(GetStr(E, "flow_start_artifact")))
FlowStartParses == FlowStartFile.st = "json"
FlowStartIsDict == FlowStartParses /\ FlowStartFile.doc.k = "dict"
F == FlowStartFile.doc.o

\* a field as the court reads it: as text, surrounding whitespace stripped
Read(o, f) == Strip(GetStr(o, f))

\* the value of a field without any conversion, "" when the key is absent
Raw(o, f) == Get(o, f, JStr(<<>>))

-----------------------------------------------------------------------------
(* C1 *)

\* C1: whatever the evidence path holds and whatever --phase is, main ends
\* without raising, having written one verdict object to the output path,
\* with exit code 0.
C1_AlwaysVerdictAndExitZero ==
    runs > 0 =>
        /\ ~raised
        /\ exit_code = 0
        /\ files[args.output] = JsonFile(VerdictDoc(payload))

(* C2 *)

FlowStartLinked == "flow_start_artifact" \in DOMAIN E /\ FlowStartParses

\* C3 as stated: a verdict for expected phase p passes only if phase_id equals
\* p, command_name is a member of p's allowed commands, phase_status equals
\* "ok", command_rc equals 0, active_config_sha256 is non-empty, every required
\* field is present and the flow_start_artifact path exists and parses.
\* Text is taken up to surrounding whitespace; 0 may be spelled as text, and
\* false equals 0 as Python compares them.
C3_PassOnlyIfRcEqualsZero ==
    (Judged /\ payload.pass) =>
        /\ args.phase \in Phases
        /\ EvidenceIsDict
        /\ \A i \in 1..Len(required_fields) : required_fields[i] \in DOMAIN E
        /\ Read(E, "phase_id") = <<args.phase>>
        /\ \E c \in allowed_commands(args.phase) : Read(E, "command_name") = <<c>>
        /\ Read(E, "phase_status") = <<"ok">>
        /\ Read(E, "command_rc") \in {<<"0">>, <<"False">>}
        /\ Read(E, "active_config_sha256") # <<>>
        /\ FlowStartLinked

\* C3 amended: as stated, except that command_name counts with its surrounding
\* whitespace stripped and command_rc counts as int() converts it: 0, a
\* fraction that truncates to 0, false, or text that spells 0.
C3_PassOnlyIfRcConvertsToZero ==
    (Judged /\ payload.pass) =>
        /\ args.phase \in Phases
        /\ EvidenceIsDict
        /\ \A i \in 1..Len(required_fields) : required_fields[i] \in DOMAIN E
        /\ E["phase_id"] = JStr(<<args.phase>>)
        /\ \E c \in allowed_commands(args.phase) : Read(E, "command_name") = <<c>>
        /\ E["phase_status"] = JStr(<<"ok">>)
        /\ PyInt(E["command_rc"]).ok /\ PyInt(E["command_rc"]).n = 0
        /\ Read(E, "active_config_sha256") # <<>>
        /\ FlowStartLinked

C3_Witness ==
    /\ Judged /\ payload.pass
    /\ E["command_rc"] = JFloat("0.5", 0)

(* C4 *)

\* C4: in every verdict written, status is pass, fail or unverified, and pass
\* is true exactly when status is pass, exactly when violations is empty and
\* exactly when violated_laws is empty.
C4_PassIffNoViolationIffNoLaw ==
    Judged =>
        /\ payload.status \in {"pass", "fail", "unverified"}
        /\ payload.pass \in BOOLEAN
        /\ payload.pass <=> payload.status = "pass"
        /\ payload.pass <=> payload.violations = <<>>
        /\ payload.pass <=> payload.violated_laws = <<>>
        /\ files[args.output] = JsonFile(VerdictDoc(payload))

C4_Witness ==
    /\ Judged /\ ~payload.pass
    /\ payload.violations = <<"missing_config_sha256">>
    /\ payload.violated_laws = <<"LAW_6_PROVENANCE">>

(* C5 *)

\* both documents carry the field and, as the court reads them, the evidence's
\* value is not blank and is not the snapshot's
Differs(f) ==
    /\ f \in DOMAIN E /\ f \in DOMAIN F
    /\ Read(E, f) # <<>>
    /\ Read(E, f) # Read(F, f)

TargetsDiffer ==
    /\ Raw(F, "lium_target").k = "str" /\ Raw(E, "lium_target").k = "str"
    /\ Read(F, "lium_target") # <<>> /\ Read(E, "lium_target") # <<>>
    /\ Read(F, "lium_target") # Read(E, "lium_target")

FallbackHostsDiffer ==
    /\ Raw(F, "ops_default_host").k = "str" /\ Raw(E, "ops_default_host").k = "str"
    /\ Read(F, "ops_default_host") # <<>> /\ Read(E, "ops_default_host") # <<>>
    /\ Read(F, "ops_default_host") # Read(E, "ops_default_host")

\* C6: when the expected phase is one of P20..P99 and snapshot and evidence
\* carry different non-empty lium_target (ops_default_host) values, the verdict
\* has target_drift_from_flow_start (fallback_host_drift_from_flow_start) with
\* LAW_3_TARGET_RESOLUTION; when the expected phase is P00 or P10 the verdict
\* has neither.
C6_TargetDriftByExpectedPhase ==
    (Validated /\ FlowStartIsDict) =>
        /\ (args.phase \in TARGET_BOUND_PHASES /\ TargetsDiffer) =>
              Has("target_drift_from_flow_start") /\ HasLaw("LAW_3_TARGET_RESOLUTION")
        /\ (args.phase \in TARGET_BOUND_PHASES /\ FallbackHostsDiffer) =>
              Has("fallback_host_drift_from_flow_start") /\ HasLaw("LAW_3_TARGET_RESOLUTION")
        /\ args.phase \in {"P00", "P10"} =>
              /\ ~Has("target_drift_from_flow_start")
              /\ ~Has("fallback_host_drift_from_flow_start")

(* C7 *)

\* C7: when the expected phase is P20, evidence with lium_target and
\* ops_default_host both empty gets target_not_resolved; when it is P50 or P60,
\* evidence with an empty repo_url gets repo_url_missing; when it is P90,
\* evidence whose teardown_mode is neither keep nor delete gets
\* invalid_teardown_mode; in each case the verdict does not pass.
C7_RulesOfTheExpectedPhase ==
    Validated =>
        /\ ( /\ args.phase = "P20"
             /\ Read(E, "lium_target") = <<>>
             /\ Read(E, "ops_default_host") = <<>> ) =>
              Has("target_not_resolved") /\ ~payload.pass
        /\ (args.phase \in {"P50", "P60"} /\ Read(E, "repo_url") = <<>>) =>
              Has("repo_url_missing") /\ ~payload.pass
        /\ (args.phase = "P90" /\ Read(E, "teardown_mode") \notin {<<"keep">>, <<"delete">>}) =>
              Has("invalid_teardown_mode") /\ ~payload.pass

(* C8 *)

\* C8 as stated: the verdict has intent_mode_violation unless intent_mode
\* equals the sentinel, and contract_intent_mismatch unless contract_intent
\* equals the expected phase's intent text, character for character.
C8_IntentBoundVerbatim ==
    Validated =>
        /\ Has("intent_mode_violation") <=> Raw(E, "intent_mode") # JStr(<<INTENT_MODE>>)
        /\ Has("contract_intent_mismatch") <=>
              Raw(E, "contract_intent") # JStr(<<PHASE_CONTRACTS[args.phase].intent>>)

\* C8 amended: both comparisons are made after surrounding whitespace is
\* stripped, so a value that differs only by it is accepted.
C8_IntentBoundUpToWhitespace ==
    Validated =>
        /\ Has("intent_mode_violation") <=> Read(E, "intent_mode") # <<INTENT_MODE>>
        /\ Has("contract_intent_mismatch") <=>
              Read(E, "contract_intent") # <<PHASE_CONTRACTS[args.phase].intent>>

C8_Witness ==
    /\ Validated /\ payload.pass
    /\ Raw(E, "intent_mode") = JStr(<<WS, INTENT_MODE>>)

(* C9 *)

MissingLaw(law) == Count("missing_applicable_law:" \o law)

Entries == IF Raw(E, "applicable_laws").k = "list" THEN Raw(E, "applicable_laws").e ELSE <<>>

\* C9 as stated: for a known expected phase the violations hold exactly one
\* missing_applicable_law:<id> for each required law that is no entry of the
\* evidence's applicable_laws, and none for any other law.
C9_OneEntryPerLawNotListed ==
    Validated =>
        \A law \in Range(LawOrder) :
            MissingLaw(law) =
                IF /\ law \in expected_laws(args.phase)
                   /\ \A i \in 1..Len(Entries) : Entries[i] # JStr(<<law>>)
                THEN 1 ELSE 0

\* C9 amended: an entry lists a law when it equals the id once its surrounding
\* whitespace is stripped.
C9_OneEntryPerLawNotListedUpToWhitespace ==
    Validated =>
        \A law \in Range(LawOrder) :
            MissingLaw(law) =
                IF /\ law \in expected_laws(args.phase)
                   /\ \A i \in 1..Len(Entries) : Strip(PyStr(Entries[i])) # <<law>>
                THEN 1 ELSE 0

C9_Witness ==
    /\ Validated
    /\ Len(Entries) > 0
    /\ \E law \in expected_laws(args.phase) :
          /\ MissingLaw(law) = 1
          /\ \E other \in expected_laws(args.phase) : MissingLaw(other) = 0
    /\ \E i \in 1..Len(Entries) : Entries[i] = JStr(<<"LAW_0_EXTRA">>)

(* C10 *)

\* C10: two invocations with the same expected phase, evidence and flow-start
\* snapshot give the same violations and the same violated_laws, in the same
\* order; nothing but checked_at differs between their verdicts.
C10_SameVerdictButForTime ==
    (runs >= 2 /\ ~raised /\ prev_payload # NoPayload) =>
        /\ payload.violations = prev_payload.violations
        /\ payload.violated_laws = prev_payload.violated_laws
        /\ [payload EXCEPT !.checked_at = 0] = [prev_payload EXCEPT !.checked_at = 0]

C10_Witness ==
    /\ runs >= 2 /\ ~raised /\ prev_payload # NoPayload
    /\ payload.checked_at # prev_payload.checked_at
    /\ Len(payload.violated_laws) >= 3
    /\ Len(payload.violations) >= 3

-----------------------------------------------------------------------------
(* C11, C12: the court's writes *)

\* C11: the verdict is written atomically: a reader of the output path that
\* runs beside the court never finds it empty or partly written, also when
\* the court overwrites the verdict of an earlier run.
C11_ReaderNeverSeesPartialVerdict == seen.st # "truncated"

\* C12: whatever the arguments, an invocation of the court leaves the
\* evidence document and the flow-start snapshot with the content they had;
\* the only file written is the output path.
C12_EvidenceNeverWritten ==
    [][\A x \in {EVIDENCE_PATH, FLOW_START_PATH} :
          files[x].st = "json" => files'[x] = files[x]]_vars

\* C12 amended: when --output names neither the evidence file nor the
\* flow-start file, an invocation changes no file but the output path.
C12_OnlyOutputWritten ==
    [][args.output \notin {EVIDENCE_PATH, FLOW_START_PATH} =>
          \A x \in Paths \ {args.output} : files'[x] = files[x]]_vars

C12_Witness ==
    /\ runs > 0 /\ pc = "idle" /\ ~raised
    /\ args.output = OUTPUT_PATH
    /\ files[OUTPUT_PATH] = JsonFile(VerdictDoc(payload))
    /\ payload.status = "pass"
    /\ files[EVIDENCE_PATH] = JsonFile(JDict(CompliantEvidence(args.phase)))
    /\ files[FLOW_START_PATH] = JsonFile(JDict(CompliantFlowStart))

-----------------------------------------------------------------------------
(* The ops CLI (infra_scripts/ops.py).                                      *)
(*                                                                         *)
(* A string option that was not given, and an unset environment variable,  *)
(* are "".  A directory path is the sequence of its components, a trailing *)
(* "" standing for a trailing "/", and <<>> for a path not given.  Text    *)
(* that a command prints is a record, so that the rendering of a command   *)
(* differs from the command.                                                *)

PyNone     == [none |-> TRUE]
Out(text)  == [text |-> text]

\* shlex.join(command): the command as one shell line, distinct from the
\* argument vector it renders
shell_join(command) == [shell_line |-> command]

\* s.rstrip("/")
RECURSIVE rstrip_slash(_)
rstrip_slash(dir) ==
    IF dir # <<>> /\ dir[Len(dir)] = ""
    THEN rstrip_slash(SubSeq(dir, 1, Len(dir) - 1))
    ELSE dir

\* f"{dir.rstrip('/')}/{run_id}"
under(dir, run_id) == [base |-> rstrip_slash(dir), id |-> run_id]

\* args.host or os.getenv("OPS_DEFAULT_HOST", "lium")
resolve_host(a) ==
    IF a.host # "" THEN a.host
    ELSE IF env.OPS_DEFAULT_HOST # "" THEN env.OPS_DEFAULT_HOST
    ELSE "lium"

\* os.getenv("OPS_REMOTE_OUTPUTS_DIR", "/mnt/pod_artifacts/outputs")
default_remote_outputs_dir ==
    IF env.OPS_REMOTE_OUTPUTS_DIR # <<>> THEN env.OPS_REMOTE_OUTPUTS_DIR
    ELSE <<"mnt", "pod_artifacts", "outputs">>

\* args.remote_outputs_dir or default_remote_outputs_dir()
flag_remote_outputs(a) ==
    IF a.remote_outputs_dir # <<>> THEN a.remote_outputs_dir
    ELSE default_remote_outputs_dir

\* the argument vectors the operations build
ssh(host, sh)  == [prog |-> "ssh", host |-> host, sh |-> sh]
lium_ps        == [prog |-> "lium", host |-> "", sh |-> [verb |-> "ps"]]
scp(host, remote_dir, local_dir) ==
    [prog |-> "scp", host |-> host,
     sh |-> [verb |-> "copy", src |-> remote_dir, dst |-> local_dir]]

\* what the remote hosts hold when an invocation begins, and the commands it
\* has run: none yet
Remote ==
    [sessions |-> sessions, launches |-> launches, started |-> started,
     summaries |-> summaries, executed |-> <<>>]

CommandResult(stdout, stderr, returncode) ==
    [stdout |-> stdout, stderr |-> stderr, returncode |-> returncode]

\* a command that ran: its result and what the remote hosts hold after it
Ran(stdout, stderr, returncode, rs) ==
    [res |-> CommandResult(Out(stdout), Out(stderr), returncode), rs |-> rs]

\* subprocess.run(command): the results the command can have with the remote
\* hosts holding rs.  A command over ssh can fail in transport.
subprocess_run(command, rs) ==
    LET sh == command.sh
        h  == command.host
        transport == IF command.prog \in {"ssh", "scp"}
                     THEN {Ran("", "ssh: connection refused", 255, rs)}
                     ELSE {}
        done ==
          CASE sh.verb = "ps" ->
                 {Ran("pods", "", 0, rs), Ran("", "lium: not logged in", 1, rs)}
            [] sh.verb = "ls_mnt" ->
                 {Ran("eval_1", "", 0, rs), Ran("", "ls: /mnt: no such directory", 2, rs)}
            [] sh.verb = "archive" ->
                 {Ran("", "", 0, rs), Ran("", "cp: no match", 1, rs)}
            [] sh.verb = "copy" ->
                 {Ran("", "", 0, rs), Ran("", "scp: no such file", 1, rs)}
            [] sh.verb = "curl" ->
                 {Ran("200", "", 0, rs), Ran("503", "", 0, rs), Ran("", "", 0, rs),
                  Ran("000", "curl: (7) failed to connect", 7, rs)}
            [] sh.verb = "tmux_start" ->
                 \* tmux has-session -t S || tmux new-session -d -s S CMD
                 IF [host |-> h, name |-> sh.session] \in rs.sessions
                 THEN {Ran("", "", 0, rs)}
                 ELSE {Ran("", "", 0,
                           [rs EXCEPT !.sessions = @ \cup {[host |-> h, name |-> sh.session]},
                                      !.launches = Append(@, sh.cmd)])}
            [] sh.verb = "tmux_kill" ->
                 IF [host |-> h, name |-> sh.session] \in rs.sessions
                 THEN {Ran("", "", 0,
                           [rs EXCEPT !.sessions = @ \ {[host |-> h, name |-> sh.session]}])}
                 ELSE {Ran("", "can't find session", 1, rs)}
            [] sh.verb = "test_summary" ->
                 IF sh.run_dir \in rs.summaries
                 THEN {Ran("", "", 0, rs)} ELSE {Ran("", "", 1, rs)}
            [] sh.verb = "dispatch" ->
                 IF sh.session # ""
                 THEN \* has-session || new-session; send-keys: the run starts
                      {Ran("", "", 0,
                           [rs EXCEPT !.sessions = @ \cup {[host |-> h, name |-> sh.session]},
                                      !.started = @ \cup {sh.run_dir}])}
                 ELSE \* the run in the foreground: it ends before ssh returns
                      {Ran("", "", 0, rs),
                       Ran("", "", 0, [rs EXCEPT !.summaries = @ \cup {sh.run_dir}]),
                       Ran("", "cd: no such directory", 1, rs)}
            [] sh.verb = "cat_summary" ->
                 IF sh.run_dir \in rs.summaries
                 THEN {Ran("{...}", "", 0, rs), Ran("{", "", 0, rs)}
                 ELSE {Ran("", "cat: no such file", 1, rs)}
            [] sh.verb = "tail_stdout" ->
                 {Ran("step 1", "", 0, rs), Ran("", "tail: no such file", 1, rs)}
    IN  {[o EXCEPT !.rs.executed =
                     Append(@, [command |-> command, returncode |-> o.res.returncode])] :
            o \in transport \cup done}

\* run_command(command, dry_run=...)
run_command(command, dry_run, rs) ==
    IF dry_run
    THEN {[res |-> CommandResult(shell_join(command), Out(""), 0), rs |-> rs]}
    ELSE subprocess_run(command, rs)

\* result.stderr or result.stdout
error_of(res) == IF res.stderr # Out("") THEN res.stderr ELSE res.stdout

\* how an operation ends: what it prints, its return value, what the remote
\* hosts hold and which local directories exist
Finish(printed, returncode, rs, dirs) ==
    [result |-> printed, rc |-> returncode, rs |-> rs, dirs |-> dirs]

artifacts_archive(a) ==
    LET host       == resolve_host(a)
        remote_dir == under(flag_remote_outputs(a), a.run_id)
        command    == ssh(host, [verb |-> "archive", dir |-> remote_dir])
    IN  {IF o.res.returncode # 0
         THEN Finish([ok |-> FALSE, host |-> host, error |-> error_of(o.res)],
                     o.res.returncode, o.rs, ldirs)
         ELSE Finish([ok |-> TRUE, host |-> host, remote_dir |-> remote_dir,
                      command |-> IF a.dry_run THEN o.res.stdout ELSE PyNone],
                     0, o.rs, ldirs) :
            o \in run_command(command, a.dry_run, Remote)}

\* path.mkdir(parents=True, exist_ok=True)
ensure_dir(path, dirs) == dirs \cup {path, [base |-> path.base, id |-> <<>>]}

artifacts_fetch(a) ==
    LET host       == resolve_host(a)
        local_dir  == [base |-> a.local_root, id |-> a.run_id]
        made       == ensure_dir(local_dir, ldirs)
        remote_dir == under(flag_remote_outputs(a), a.run_id)
        command    == scp(host, remote_dir, local_dir)
    IN  {IF o.res.returncode # 0
         THEN Finish([ok |-> FALSE, host |-> host, error |-> error_of(o.res)],
                     o.res.returncode, o.rs, made)
         ELSE Finish([ok |-> TRUE, host |-> host, local_dir |-> local_dir,
                      remote_dir |-> remote_dir,
                      command |-> IF a.dry_run THEN o.res.stdout ELSE PyNone],
                     0, o.rs, made) :
            o \in run_command(command, a.dry_run, Remote)}

pod_status(a) ==
    LET host == resolve_host(a)
    IN  UNION {{LET ok == l.res.returncode = 0 /\ m.res.returncode = 0
                IN  Finish([ok |-> ok, host |-> host,
                            lium_ps |-> IF a.dry_run THEN PyNone ELSE l.res.stdout,
                            mnt_ok |-> m.res.returncode = 0,
                            mnt_error |-> IF m.res.returncode = 0 THEN PyNone
                                          ELSE error_of(m.res),
                            commands |-> IF a.dry_run
                                         THEN [list |-> <<l.res.stdout, m.res.stdout>>]
                                         ELSE PyNone],
                           IF ok THEN 0 ELSE 1, m.rs, ldirs) :
                   m \in run_command(ssh(host, [verb |-> "ls_mnt"]), a.dry_run, l.rs)} :
               l \in run_command(lium_ps, a.dry_run, Remote)}

\* raw_url.rstrip("/"), with "/v1" added unless it ends with it
normalize_base_url(raw_url) ==
    LET base_url == rstrip_slash(raw_url)
    IN  IF base_url # <<>> /\ base_url[Len(base_url)] = "v1"
        THEN base_url ELSE Append(base_url, "v1")

\* int(result.stdout.strip()); None on ValueError
status_code_of(stdout) ==
    CASE stdout = Out("200") -> [none |-> FALSE, n |-> 200]
      [] stdout = Out("503") -> [none |-> FALSE, n |-> 503]
      [] stdout = Out("000") -> [none |-> FALSE, n |-> 0]
      [] OTHER               -> [none |-> TRUE, n |-> 0]

vllm_status(a) ==
    LET host     == resolve_host(a)
        base_url == normalize_base_url(a.api_base_url)
        command  == ssh(host, [verb |-> "curl", url |-> Append(base_url, "models")])
    IN  {LET status_code == IF ~a.dry_run /\ o.res.returncode = 0
                            THEN status_code_of(o.res.stdout)
                            ELSE [none |-> TRUE, n |-> 0]
             ok == ~status_code.none /\ 200 <= status_code.n /\ status_code.n < 500
             printed == [ok |-> IF ~a.dry_run THEN ok ELSE TRUE,
                         host |-> host, base_url |-> base_url,
                         status_code |-> status_code,
                         command |-> IF a.dry_run THEN o.res.stdout ELSE PyNone,
                         error |-> IF ok THEN PyNone
                                   ELSE IF ~a.dry_run THEN error_of(o.res) ELSE PyNone]
         IN  Finish(printed, IF printed.ok THEN 0 ELSE 1, o.rs, ldirs) :
            o \in run_command(command, a.dry_run, Remote)}

\* the server command line vllm start builds from its options
vllm_cmd(a) ==
    <<a.vllm_bin>>
    \o (IF a.vllm_bin = "python"
        THEN <<"-m", "vllm.entrypoints.openai.api_server">> ELSE <<"serve">>)
    \o <<a.model_id, "--host", "127.0.0.1", "--port", "8000",
         "--tensor-parallel-size", "1", "--dtype", "auto">>

\* the remote command of vllm start without the has-session test
vllm_start_command_unguarded(a) ==
    ssh(resolve_host(a),
        [verb |-> "tmux_new", session |-> a.session, cmd |-> shell_join(vllm_cmd(a))])

\* the remote command of vllm start: has-session || new-session
vllm_start_command(a) ==
    ssh(resolve_host(a),
        [verb |-> "tmux_start", session |-> a.session, cmd |-> shell_join(vllm_cmd(a))])

\* the payload of vllm start and vllm stop
session_payload(a, res) ==
    [ok |-> res.returncode = 0, host |-> resolve_host(a), session |-> a.session,
     command |-> IF a.dry_run THEN res.stdout ELSE PyNone,
     error |-> IF res.returncode = 0 THEN PyNone ELSE error_of(res)]

\* vllm start after run_command has returned o
vllm_start_finish(a, o) ==
    Finish(session_payload(a, o.res), IF o.res.returncode = 0 THEN 0 ELSE 1, o.rs, ldirs)

vllm_start(a) ==
    {vllm_start_finish(a, o) : o \in run_command(vllm_start_command(a), a.dry_run, Remote)}

vllm_stop(a) ==
    LET command == ssh(resolve_host(a), [verb |-> "tmux_kill", session |-> a.session])
    IN  {Finish(session_payload(a, o.res), IF o.res.returncode = 0 THEN 0 ELSE 1,
                o.rs, ldirs) :
            o \in run_command(command, a.dry_run, Remote)}

\* json.loads(summary_result.stdout); None on JSONDecodeError
summary_payload_of(stdout) ==
    IF stdout = Out("{...}") THEN [summary |-> "parsed"] ELSE PyNone

\* runs_status with a failing tail of stdout.log failing the check
runs_status_needing_tail(a) ==
    LET host    == resolve_host(a)
        run_dir == under(flag_remote_outputs(a), a.run_id)
        summary_cmd == ssh(host, [verb |-> "cat_summary", run_dir |-> run_dir])
        stdout_cmd  == ssh(host, [verb |-> "tail_stdout", run_dir |-> run_dir,
                                  n |-> a.tail_lines])
    IN  UNION {{LET ok == sm.res.returncode = 0 /\ st.res.returncode = 0
                IN  Finish([ok |-> ok, host |-> host, run_id |-> a.run_id,
                            summary |-> IF ~a.dry_run /\ ok
                                        THEN summary_payload_of(sm.res.stdout)
                                        ELSE PyNone,
                            stdout_tail |-> IF a.dry_run THEN PyNone ELSE st.res.stdout,
                            commands |-> IF a.dry_run
                                         THEN [list |-> <<sm.res.stdout, st.res.stdout>>]
                                         ELSE PyNone,
                            error |-> IF ok THEN PyNone ELSE error_of(sm.res)],
                           IF ok THEN 0 ELSE 1, st.rs, ldirs) :
                   st \in run_command(stdout_cmd, a.dry_run, sm.rs)} :
               sm \in run_command(summary_cmd, a.dry_run, Remote)}

runs_status(a) ==
    LET host    == resolve_host(a)
        run_dir == under(flag_remote_outputs(a), a.run_id)
        summary_cmd == ssh(host, [verb |-> "cat_summary", run_dir |-> run_dir])
        stdout_cmd  == ssh(host, [verb |-> "tail_stdout", run_dir |-> run_dir,
                                  n |-> a.tail_lines])
    IN  UNION {{LET ok == sm.res.returncode = 0
                IN  Finish([ok |-> ok, host |-> host, run_id |-> a.run_id,
                            summary |-> IF ~a.dry_run /\ ok
                                        THEN summary_payload_of(sm.res.stdout)
                                        ELSE PyNone,
                            stdout_tail |-> IF a.dry_run THEN PyNone ELSE st.res.stdout,
                            commands |-> IF a.dry_run
                                         THEN [list |-> <<sm.res.stdout, st.res.stdout>>]
                                         ELSE PyNone,
                            error |-> IF ok THEN PyNone ELSE error_of(sm.res)],
                           IF ok THEN 0 ELSE 1, st.rs, ldirs) :
                   st \in run_command(stdout_cmd, a.dry_run, sm.rs)} :
               sm \in run_command(summary_cmd, a.dry_run, Remote)}

\* an uncaught exception: traceback on stderr, exit status 1, nothing printed
Raised(exc, rs) == Finish([traceback |-> exc], 1, rs, ldirs)

\* "".join(ch if ch.isalnum() or ch in "._-" else "-" for ch in s)
safe(str) == IF str = "gsm 8k" THEN "gsm-8k" ELSE str

\* make_run_id(config) at time t: the id starts with the time, to the second
make_run_id(config, t) ==
    <<ToString(t),
      safe(IF "env_id" \in DOMAIN config THEN config["env_id"] ELSE "env"),
      "model", "n0", "r0", "b0", "seed0">>

\* {**defaults, **run}
merge(defaults, run) ==
    [x \in DOMAIN defaults \cup DOMAIN run |->
        IF x \in DOMAIN run THEN run[x] ELSE defaults[x]]

\* build_eval_command(config): a flag for every key but run_id and label
build_eval_command(config) ==
    [argv0 |-> <<"python", "inference/eval_gsm8k.py">>,
     flags |-> [x \in DOMAIN config \ {"run_id", "label"} |-> config[x]]]

\* `if not args.dry_run:` in place of the condition of the summary check
summary_checked_despite_force(a) == ~a.dry_run

\* if not args.force and not args.dry_run: the summary check is made
summary_checked(a) == ~a.force /\ ~a.dry_run

\* a dispatch whose return code is not looked at
dispatch_failed_unnoticed(res) == FALSE

\* if result.returncode != 0: the submission aborts
dispatch_failed(res) == res.returncode # 0

\* the loop of runs_submit from row i on.  c holds what runs_submit resolved
\* before the loop; acc holds queued, skipped, commands and the remote state.
RECURSIVE submit_rows(_, _, _, _)
submit_rows(a, c, i, acc) ==
    IF i > Len(c.runs)
    THEN {Finish([ok |-> TRUE, host |-> c.host, queued |-> acc.queued,
                  skipped |-> acc.skipped,
                  commands |-> IF a.dry_run THEN [list |-> acc.commands] ELSE PyNone,
                  tmux_session |-> c.tmux_session],
                 0, acc.rs, ldirs)}
    ELSE IF c.runs[i].k # "dict"
    THEN submit_rows(a, c, i + 1, acc)
    ELSE
      LET merged0 == merge(c.defaults, c.runs[i].o)
          run_id  == IF "run_id" \in DOMAIN merged0 /\ merged0["run_id"] # <<>>
                     THEN merged0["run_id"] ELSE make_run_id(merged0, c.t)
          run_dir == IF "run_dir" \in DOMAIN merged0 /\ merged0["run_dir"] # <<>>
                     THEN merged0["run_dir"] ELSE under(c.remote_outputs, run_id)
          merged  == merge(merged0, [x \in {"run_dir"} |-> run_dir])
          cmd_str == shell_join(build_eval_command(merged))
          checked == summary_checked(a)
          checks  == IF checked
                     THEN run_command(ssh(c.host, [verb |-> "test_summary",
                                                   run_dir |-> run_dir]),
                                      FALSE, acc.rs)
                     ELSE {[res |-> CommandResult(Out(""), Out(""), 1), rs |-> acc.rs]}
          remote  == [verb |-> "dispatch", session |-> c.tmux_session,
                      run_dir |-> run_dir, repo |-> c.remote_repo, cmd |-> cmd_str]
      IN  UNION {
            IF checked /\ check.res.returncode = 0
            THEN submit_rows(a, c, i + 1,
                             [acc EXCEPT !.skipped = Append(@, run_id), !.rs = check.rs])
            ELSE UNION {
                   IF dispatch_failed(d.res)
                   THEN {Finish([ok |-> FALSE, host |-> c.host, error |-> error_of(d.res)],
                                d.res.returncode, d.rs, ldirs)}
                   ELSE submit_rows(a, c, i + 1,
                                    [acc EXCEPT !.queued = Append(@, run_id),
                                                !.commands =
                                                    Append(@, IF a.dry_run THEN d.res.stdout
                                                              ELSE [sh |-> remote]),
                                                !.rs = d.rs]) :
                   d \in run_command(ssh(c.host, remote), a.dry_run, check.rs)} :
            check \in checks}

\* runs_submit at time t
runs_submit(a, t) ==
    IF config_file.st # "json"
    THEN {Raised("load_config", Remote)}
    ELSE IF config_file.doc.k # "dict"
    THEN {Raised("AttributeError", Remote)}
    ELSE
      LET config == config_file.doc
          remote_repo == IF config.remote_repo # "" THEN config.remote_repo
                         ELSE IF a.remote_repo # "" THEN a.remote_repo
                         ELSE env.OPS_REMOTE_REPO
          remote_outputs == IF config.remote_outputs_dir # <<>>
                            THEN config.remote_outputs_dir
                            ELSE flag_remote_outputs(a)
          tmux_session == IF ~a.no_tmux THEN config.tmux_session ELSE ""
      IN  IF config.runs.k # "list"
          THEN {Finish([ok |-> FALSE, error |-> Out("runs must be a list")],
                       2, Remote, ldirs)}
          ELSE IF remote_repo = ""
          THEN {Finish([ok |-> FALSE, error |-> Out("remote_repo not set")],
                       2, Remote, ldirs)}
          ELSE submit_rows(a,
                           [host |-> resolve_host(a), defaults |-> config.defaults,
                            runs |-> config.runs.e, remote_repo |-> remote_repo,
                            remote_outputs |-> remote_outputs,
                            tmux_session |-> tmux_session, t |-> t],
                           1,
                           [queued |-> <<>>, skipped |-> <<>>, commands |-> <<>>,
                            rs |-> Remote])

\* the names an entry of the root can have, in the order sorted() gives them
RunNames == <<"r1", "r2">>

\* sorted(root.iterdir()): the entries that exist, sorted by name
sorted_iterdir(root) == SelectSeq(RunNames, LAMBDA n : root.e[n].kind # "none")

\* (entry / name).exists()
exists(entry, name) ==
    IF name = "summary.json" THEN entry.summary.k # "none" ELSE name \in entry.present

\* validate_runs.required, without its last file
required_without_stdout == <<"command.sh", "run_metadata.json", "summary.json">>

\* validate_runs.required
required == <<"command.sh", "run_metadata.json", "summary.json", "stdout.log">>

\* validate_runs(args): `missing` is a dict, the function of its keys
validate_runs(a) ==
    IF root_dir.k = "none"
    THEN {Finish([ok |-> FALSE, error |-> Out("Root not found")], 2, Remote, ldirs)}
    ELSE IF root_dir.k # "dir"
    THEN {Raised("NotADirectoryError", Remote)}
    ELSE LET dirs == SelectSeq(sorted_iterdir(root_dir),
                               LAMBDA n : root_dir.e[n].kind = "dir")
             missing_files(n) ==
                 SelectSeq(required, LAMBDA name : ~exists(root_dir.e[n], name))
             incomplete == {dirs[i] : i \in {j \in DOMAIN dirs :
                                               missing_files(dirs[j]) # <<>>}}
         IN  {Finish([ok |-> TRUE, root |-> a.root,
                      complete |-> SelectSeq(dirs, LAMBDA n : missing_files(n) = <<>>),
                      missing |-> [n \in incomplete |-> missing_files(n)]],
                     0, Remote, ldirs)}

\* the body of the loop of report_runs for entry n: no row, a row, or the
\* exception that read_text or summary.get raises
report_row(root, n) ==
    LET entry == root.e[n]
        k     == entry.summary.k
    IN  IF entry.kind # "dir" \/ k = "none" THEN [skip |-> TRUE]
        ELSE IF k = "dir" THEN [raised |-> "IsADirectoryError"]
        ELSE IF k = "unreadable" THEN [raised |-> "UnicodeDecodeError"]
        ELSE IF k = "garbage" THEN [skip |-> TRUE]
        ELSE IF k # "dict" THEN [raised |-> "AttributeError"]
        ELSE [row |-> [run_id |-> n,
                       avg_reward |-> Get(entry.summary.o, "avg_reward", JNull)]]

\* report_runs(args), the loop from position i of the sorted entries on
RECURSIVE report_rows(_, _, _, _)
report_rows(root, names, i, rows) ==
    IF i > Len(names) THEN [rows |-> rows]
    ELSE LET r == report_row(root, names[i])
         IN  IF "raised" \in DOMAIN r THEN r
             ELSE report_rows(root, names, i + 1,
                              IF "row" \in DOMAIN r THEN Append(rows, r.row) ELSE rows)

report_runs(a) ==
    IF root_dir.k = "none"
    THEN {Finish([ok |-> FALSE, error |-> Out("Root not found")], 2, Remote, ldirs)}
    ELSE IF root_dir.k # "dir"
    THEN {Raised("NotADirectoryError", Remote)}
    ELSE LET r == report_rows(root_dir, sorted_iterdir(root_dir), 1, <<>>)
         IN  IF "raised" \in DOMAIN r THEN {Raised(r.raised, Remote)}
             ELSE {Finish([ok |-> TRUE, root |-> a.root, count |-> Len(r.rows),
                           rows |-> r.rows,
                           markdown |-> [header |-> 2,
                                         lines |-> [i \in DOMAIN r.rows |-> r.rows[i].run_id]]],
                          0, Remote, ldirs)}

\* parser.print_help() / print("Usage: ..."); return 2, and argparse's own
\* exit for a missing required option
Usage == Finish([usage |-> TRUE], 2, Remote, ldirs)

\* main(argv) at time t: the operation the command line names
ops_dispatch(a, t) ==
    LET op == <<a.command, a.sub>>
        needs_run_id == op \in {<<"artifacts", "archive">>, <<"artifacts", "fetch">>,
                                <<"runs", "status">>}
        needs_more   == op \in {<<"vllm", "start">>, <<"runs", "submit">>}
    IN  IF (needs_run_id \/ needs_more) /\ a.missing THEN {Usage}
        ELSE CASE op = <<"artifacts", "archive">> -> artifacts_archive(a)
               [] op = <<"artifacts", "fetch">>   -> artifacts_fetch(a)
               [] op = <<"pod", "status">>        -> pod_status(a)
               [] op = <<"vllm", "status">>       -> vllm_status(a)
               [] op = <<"vllm", "start">>        -> vllm_start(a)
               [] op = <<"vllm", "stop">>         -> vllm_stop(a)
               [] op = <<"runs", "submit">>       -> runs_submit(a, t)
               [] op = <<"runs", "status">>       -> runs_status(a)
               [] op = <<"validate", "">>         -> validate_runs(a)
               [] op = <<"report", "">>           -> report_runs(a)
               [] OTHER                           -> {Usage}

\* one invocation of the ops CLI; time is read by runs submit only, which
\* runs in the second of the invocation before or in a later one
ops_main ==
    /\ runs < MaxRuns
    /\ runs' = runs + 1
    /\ \E t \in IF ops_args.sub = "submit" THEN {now, now + 1} ELSE {now} :
          /\ now' = t
          /\ \E f \in ops_dispatch(ops_args, t) :
                /\ result' = f.result
                /\ ops_rc' = f.rc
                /\ ldirs' = f.dirs
                /\ sessions' = f.rs.sessions
                /\ launches' = f.rs.launches
                /\ started' = f.rs.started
                /\ summaries' = f.rs.summaries
                /\ executed' = f.rs.executed
    /\ UNCHANGED <<ops_args, env, config_file>>
    /\ UNCHANGED <<court_vars, io_vars, tmux_vars, sweep_vars, rest_vars>>

\* a run started in a tmux session ends, leaving its summary.json
run_completes ==
    /\ \E run_dir \in started \ summaries :
          summaries' = summaries \cup {run_dir}
    /\ UNCHANGED <<ops_args, env, config_file, ldirs, executed, started, sessions,
                   launches, result, ops_rc>>
    /\ UNCHANGED <<court_vars, io_vars, tmux_vars, sweep_vars, rest_vars, now, runs>>

-----------------------------------------------------------------------------
(* The inputs of the ops CLI *)

\* the court is not run
NoCourt ==
    /\ files = <<>> /\ args = <<>> /\ payload = NoPayload /\ prev_payload = NoPayload
    /\ exit_code = -1 /\ raised = FALSE

\* a command line with every option at its default
DefaultArgs ==
    [command |-> "", sub |-> "", missing |-> FALSE, dry_run |-> FALSE,
     host |-> "", run_id |-> <<"r1">>, remote_outputs_dir |-> <<>>,
     local_root |-> <<"artifacts", "pod_logs">>,
     api_base_url |-> <<"http://127.0.0.1:8000", "v1">>,
     vllm_bin |-> "vllm", model_id |-> "model", session |-> "vllm", tail_lines |-> 60,
     remote_repo |-> "", force |-> FALSE, no_tmux |-> FALSE]

RemoteOperations ==
    {<<"artifacts", "archive">>, <<"artifacts", "fetch">>, <<"pod", "status">>,
     <<"vllm", "status">>, <<"vllm", "start">>, <<"vllm", "stop">>,
     <<"runs", "submit">>, <<"runs", "status">>}

\* command lines that name no operation
NoOperations == {<<"", "">>, <<"artifacts", "">>, <<"runs", "resume">>, <<"deploy", "">>}

\* the environment: no variable set, or all three
Envs ==
    {[OPS_DEFAULT_HOST |-> "", OPS_REMOTE_OUTPUTS_DIR |-> <<>>, OPS_REMOTE_REPO |-> ""],
     [OPS_DEFAULT_HOST |-> "hostE", OPS_REMOTE_OUTPUTS_DIR |-> <<"outE", "">>,
      OPS_REMOTE_REPO |-> "repoE"]}

\* the `runs` of a sweep config.  Rows: with a run_id, without one, with a
\* run_dir, and an entry that is not an object; the last list has two rows
\* of one run_id
RowLists ==
    LET RowA == [k |-> "dict", o |-> [run_id |-> <<"r1">>, env_id |-> "gsm8k"]]
        RowB == [k |-> "dict", o |-> [env_id |-> "gsm 8k"]]
        RowC == [k |-> "dict", o |-> [run_id |-> <<"r2">>,
                                      run_dir |-> [base |-> <<"custom">>, id |-> <<"r2">>]]]
        NotARow == [k |-> "str", o |-> <<>>]
    IN  {<<RowA>>, <<RowA, RowB>>, <<RowB, RowA>>, <<NotARow, RowA>>, <<RowC>>,
         <<RowA, RowA>>}

SweepConfig(rows, repo, outputs) ==
    JsonFile([k |-> "dict", defaults |-> <<>>, runs |-> rows, remote_repo |-> repo,
              remote_outputs_dir |-> outputs, tmux_session |-> "pilots"])

\* the contents of the file --config names
ConfigFiles ==
    {SweepConfig([k |-> "list", e |-> rows], repo, outputs) :
        rows \in RowLists, repo \in {"", "repoC"}, outputs \in {<<>>, <<"outC">>}}
    \cup {SweepConfig([k |-> "str", e |-> <<>>], "repoC", <<>>),
          JsonFile([k |-> "list"]), Absent, Unreadable}

\* the command lines of operation op
CommandLines(op) ==
    LET base == [DefaultArgs EXCEPT !.command = op[1], !.sub = op[2]]
    IN  IF op \in NoOperations THEN {base}
        ELSE IF op = <<"runs", "submit">>
        THEN {[base EXCEPT !.dry_run = d, !.remote_outputs_dir = o, !.remote_repo = r,
                           !.force = f, !.no_tmux = n] :
                 d \in BOOLEAN, o \in {<<>>, <<"outF">>}, r \in {"", "repoF"},
                 f \in BOOLEAN, n \in BOOLEAN}
             \cup {[base EXCEPT !.missing = TRUE]}
        ELSE {[base EXCEPT !.dry_run = d, !.host = h, !.remote_outputs_dir = o,
                           !.missing = m] :
                 d \in BOOLEAN, h \in {"", "hostF"}, o \in {<<>>, <<"outF", "">>},
                 m \in BOOLEAN}

InitOps ==
    \E op \in RemoteOperations \cup NoOperations :
    \E a \in CommandLines(op) :
    \E e \in Envs :
        /\ ops_args = a
        /\ env = e
        /\ config_file \in (IF op = <<"runs", "submit">> /\ ~a.missing
                            THEN ConfigFiles ELSE {Absent})
        /\ ldirs = {}
        /\ executed = <<>>
        /\ started = {}
        /\ summaries \in (IF op = <<"runs", "status">> THEN {{}, {under(<<"mnt", "pod_artifacts", "outputs">>, <<"r1">>)}}
                          ELSE {{}})
        /\ sessions \in (IF op[1] = "vllm"
                         THEN {{}, {[host |-> "lium", name |-> "vllm"]}} ELSE {{}})
        /\ launches = <<>>
        /\ result = <<>>
        /\ ops_rc = -1
        /\ now = 0
        /\ runs = 0
        /\ NoCourt /\ NoReader /\ NoLocal /\ NoTrain
        /\ procs = <<>>
        /\ out_root = <<>> /\ run_ids = <<>> /\ status = <<>>

NextOps == ops_main \/ run_completes

SpecOps == InitOps /\ [][NextOps]_vars

-----------------------------------------------------------------------------
(* Concurrent invocations of vllm start.  The remote shell runs the two     *)
(* tmux commands of `has-session || new-session` one after the other, and  *)
(* the commands of another invocation can run in between.  The tmux server *)
(* serves one command at a time, and new-session refuses a name that is in *)
(* use ("duplicate session").                                               *)

Invocations == {1, 2}

\* what no invocation of vllm start changes
tmux_frame ==
    /\ UNCHANGED <<ops_args, env, config_file, ldirs, executed, started, summaries,
                   result, ops_rc, now>>
    /\ UNCHANGED <<court_vars, io_vars, sweep_vars, rest_vars>>

\* invocation p ends, run_command having returned o; present tells whether
\* the session existed when its remote command began
tmux_done(p, o, present) ==
    LET f == vllm_start_finish(ops_args, o)
    IN  /\ procs' = [procs EXCEPT ![p] = [pc |-> "done", present |-> present,
                                          result |-> f.result, rc |-> f.rc,
                                          launched |-> Len(o.rs.launches) - Len(launches)]]
        /\ sessions' = o.rs.sessions
        /\ launches' = o.rs.launches

\* vllm_start up to the execution of ssh
tmux_begin(p) ==
    /\ procs[p].pc \in {"idle", "done"}
    /\ runs < MaxRuns
    /\ runs' = runs + 1
    /\ tmux_frame
    /\ IF ops_args.dry_run
       THEN \E o \in run_command(vllm_start_command(ops_args), TRUE, Remote) :
               tmux_done(p, o, FALSE)
       ELSE /\ procs' = [procs EXCEPT ![p] =
                           [pc |-> IF vllm_start_command(ops_args).sh.verb = "tmux_start"
                                   THEN "has_session" ELSE "new_session",
                            first |-> TRUE]]
            /\ UNCHANGED <<sessions, launches>>

\* the session invocation p names
session_of(p) == [host |-> resolve_host(ops_args), name |-> ops_args.session]

\* tmux has-session -t S, or ssh fails to connect
tmux_has_session(p) ==
    /\ procs[p].pc = "has_session"
    /\ \/ tmux_done(p, Ran("", "ssh: connection refused", 255, Remote), FALSE)
       \/ /\ session_of(p) \in sessions
          /\ tmux_done(p, Ran("", "", 0, Remote), TRUE)
       \/ /\ session_of(p) \notin sessions
          /\ procs' = [procs EXCEPT ![p] = [pc |-> "new_session", first |-> FALSE]]
          /\ UNCHANGED <<sessions, launches>>
    /\ UNCHANGED runs
    /\ tmux_frame

\* tmux new-session -d -s S CMD
tmux_new_session(p) ==
    /\ procs[p].pc = "new_session"
    /\ IF session_of(p) \in sessions
       THEN tmux_done(p, Ran("", "duplicate session", 1, Remote), procs[p].first)
       ELSE tmux_done(p, Ran("", "", 0,
                             [Remote EXCEPT !.sessions = @ \cup {session_of(p)},
                                            !.launches =
                                                Append(@, vllm_start_command(ops_args).sh.cmd)]),
                      FALSE)
    /\ UNCHANGED runs
    /\ tmux_frame

\* the command lines of vllm start
StartLines ==
    {[DefaultArgs EXCEPT !.command = "vllm", !.sub = "start", !.dry_run = d,
                         !.host = h, !.vllm_bin = b] :
        d \in BOOLEAN, h \in {"", "hostF"}, b \in {"vllm", "python"}}

InitTmux ==
    /\ ops_args \in StartLines
    /\ env \in Envs
    /\ sessions \in {{}, {[host |-> "lium", name |-> "vllm"]}}
    /\ launches = <<>>
    /\ procs = [p \in Invocations |-> [pc |-> "idle"]]
    /\ config_file = Absent /\ ldirs = {} /\ executed = <<>> /\ started = {}
    /\ summaries = {} /\ result = <<>> /\ ops_rc = -1
    /\ now = 0 /\ runs = 0
    /\ NoCourt /\ NoReader /\ NoLocal /\ NoTrain
    /\ out_root = <<>> /\ run_ids = <<>> /\ status = <<>>

NextTmux ==
    \/ \E p \in Invocations : tmux_begin(p)
    \/ \E p \in Invocations : tmux_has_session(p)
    \/ \E p \in Invocations : tmux_new_session(p)

SpecTmux == InitTmux /\ [][NextTmux]_vars

-----------------------------------------------------------------------------
(* C13 .. C18: the ops CLI *)

Operation   == <<ops_args.command, ops_args.sub>>
Submit      == Operation = <<"runs", "submit">> /\ ~ops_args.missing
\* the state is that after an invocation of a remote operation
Operated    == runs > 0 /\ Operation \in RemoteOperations /\ ~ops_args.missing
\* the step is an invocation
Invocation  == runs' # runs

\* the positions of the commands of a log that dispatch a run
Dispatches(log) == {i \in 1..Len(log) : log[i].command.sh.verb = "dispatch"}
\* the positions of the commands of a log that failed in transport
TransportFailures(log) == {i \in 1..Len(log) : log[i].returncode = 255}

\* C13: an operation invoked with --dry-run executes no subprocess, creates
\* no file or directory and changes nothing on the remote hosts; the command
\* it reports is the rendering of an argument vector.
C13_DryRunMutatesNothing ==
    [][(Invocation /\ ops_args.dry_run /\ Operation \in RemoteOperations
        /\ ~ops_args.missing) =>
          /\ executed' = <<>>
          /\ ldirs' = ldirs
          /\ <<sessions', launches', started', summaries'>> =
                <<sessions, launches, started, summaries>>
          /\ "command" \in DOMAIN result' => "shell_line" \in DOMAIN result'.command
          /\ "commands" \in DOMAIN result' =>
                /\ "list" \in DOMAIN result'.commands
                /\ \A i \in 1..Len(result'.commands.list) :
                      "shell_line" \in DOMAIN result'.commands.list[i]]_vars

\* C14: when runs submit is invoked again with the same config and the runs
\* the invocation before dispatched have all left their summary.json, it
\* dispatches none of them again and reports none as queued.  (Invocations
\* in which a command failed in transport are left aside.)
C14_CompletedRunsAreSkipped ==
    [][(/\ Invocation /\ Submit /\ ~ops_args.dry_run /\ ~ops_args.force
        /\ runs > 0 /\ "queued" \in DOMAIN result
        /\ Dispatches(executed) # {}
        /\ \A i \in Dispatches(executed) : executed[i].command.sh.run_dir \in summaries
        /\ TransportFailures(executed') = {}) =>
          /\ Dispatches(executed') = {}
          /\ "queued" \in DOMAIN result' /\ result'.queued = <<>>
          /\ Len(result'.skipped) = Len(result.queued) + Len(result.skipped)]_vars

\* C15: when the dispatch of a row fails after other rows were queued, the
\* result printed has the failing row's error and the lists of the run ids
\* queued and skipped before it.
C15_FailureKeepsQueuedAndSkipped ==
    (/\ runs > 0 /\ Submit /\ executed # <<>>
     /\ Len(executed) \in Dispatches(executed)
     /\ executed[Len(executed)].returncode # 0
     /\ \E i \in Dispatches(executed) : executed[i].returncode = 0) =>
        /\ "error" \in DOMAIN result
        /\ "queued" \in DOMAIN result /\ result.queued # <<>>
        /\ "skipped" \in DOMAIN result

\* C16: the exit code of an invocation is 0, 1 or 2: 0 when the operation
\* succeeded, 2 on a usage error, and 1 when a remote command failed, which
\* is reported as ok = false with an error.
C16_ExitCodeIsZeroOneOrTwo ==
    runs > 0 =>
        /\ ops_rc \in {0, 1, 2}
        /\ ops_rc = 0 <=> ("ok" \in DOMAIN result /\ result.ok)
        /\ "usage" \in DOMAIN result => ops_rc = 2
        /\ ("ok" \in DOMAIN result /\ ~result.ok /\ "host" \in DOMAIN result) =>
              /\ ops_rc = 1
              /\ "error" \in DOMAIN result

\* the sweep config is a JSON object
ConfigIsObject == config_file.st = "json" /\ config_file.doc.k = "dict"

\* C17: runs submit ends with exit code 2, having executed no command, when
\* a required argument is missing, when neither config, flag nor environment
\* gives the remote repository, when `runs` is not a list and when the config
\* is not a JSON object.
C17_PreconditionFailureExitsTwo ==
    (/\ runs > 0 /\ Operation = <<"runs", "submit">>
     /\ \/ ops_args.missing
        \/ config_file.st = "json" /\ config_file.doc.k # "dict"
        \/ ConfigIsObject /\ config_file.doc.runs.k # "list"
        \/ /\ ConfigIsObject /\ config_file.doc.remote_repo = ""
           /\ ops_args.remote_repo = "" /\ env.OPS_REMOTE_REPO = "") =>
        /\ ops_rc = 2
        /\ executed = <<>>

\* the first of flag, config value and environment variable that is set,
\* else the default
Preferred(flag, conf, envvar, default, unset) ==
    IF flag # unset THEN flag
    ELSE IF conf # unset THEN conf
    ELSE IF envvar # unset THEN envvar
    ELSE default

\* C18: the remote host, the remote outputs directory and the remote
\* repository are those of the flag when it is given, else of the config
\* file, else of the environment variable, else the default.
C18_FlagsTakePrecedence ==
    Operated =>
        /\ "host" \in DOMAIN result =>
              result.host = Preferred(ops_args.host, "", env.OPS_DEFAULT_HOST, "lium", "")
        /\ "remote_dir" \in DOMAIN result =>
              result.remote_dir.base =
                  rstrip_slash(Preferred(ops_args.remote_outputs_dir, <<>>,
                                         env.OPS_REMOTE_OUTPUTS_DIR,
                                         <<"mnt", "pod_artifacts", "outputs">>, <<>>))
        /\ (Submit /\ ConfigIsObject) =>
              \A i \in Dispatches(executed) :
                 /\ executed[i].command.sh.repo =
                       Preferred(ops_args.remote_repo, config_file.doc.remote_repo,
                                 env.OPS_REMOTE_REPO, "", "")
                 /\ "run_dir" \notin DOMAIN config_file.doc.runs.e[1].o =>
                       executed[i].command.sh.run_dir.base =
                           rstrip_slash(Preferred(ops_args.remote_outputs_dir,
                                                  config_file.doc.remote_outputs_dir,
                                                  env.OPS_REMOTE_OUTPUTS_DIR,
                                                  <<"mnt", "pod_artifacts", "outputs">>,
                                                  <<>>))

-----------------------------------------------------------------------------
(* C19: concurrent vllm start *)

-----------------------------------------------------------------------------
(* The sweep status aggregator (infra_scripts/sweeps/sweep_status.py) *)

\* number of run ids in the list given to compute_status
MaxIds == 2

RunIds == {"A", "B", "C"}

\* what out_root / rid can be; a summary is what summary.json is: a file with
\* a content, a directory, or nothing
Entry(kind, summary) == [kind |-> kind, summary |-> summary]

\* the contents of a summary.json file: text that is not JSON, a file that
\* cannot be read, JSON values that are not objects, and objects
SummaryContents ==
    {[k |-> "garbage"], [k |-> "unreadable"],
     [k |-> "list"], [k |-> "null"], [k |-> "int"],
     [k |-> "dict", o |-> [ok |-> JBool(TRUE)]],
     [k |-> "dict", o |-> [ok |-> JBool(FALSE)]],
     [k |-> "dict", o |-> [ok |-> JInt(1)]],
     [k |-> "dict", o |-> [ok |-> JStr(<<"true">>)]],
     [k |-> "dict", o |-> [avg_reward |-> JInt(1)]]}

\* nothing, a plain file, a directory without summary.json, a directory
\* whose summary.json is a directory, and directories with a summary file
Entries_of_root ==
    {Entry("none", [k |-> "none"]), Entry("file", [k |-> "none"]),
     Entry("dir", [k |-> "none"]), Entry("dir", [k |-> "dir"])}
    \cup {Entry("dir", c) : c \in SummaryContents}

EmptyStatus ==
    [ok |-> <<>>, failed |-> <<>>, in_progress |-> <<>>, missing_dir |-> <<>>,
     parse_error |-> <<>>]

\* the body of the loop of compute_status for run id rid: the bucket rid is
\* appended to, or "raise" when data.get raises
bucket_of(root, rid) ==
    LET e == root[rid]
    IN  IF e.kind # "dir" THEN "missing_dir"
        ELSE IF e.summary.k \in {"none", "dir"} THEN "in_progress"
        ELSE IF e.summary.k \in {"garbage", "unreadable"} THEN "parse_error"
        ELSE IF e.summary.k # "dict" THEN "raise"
        ELSE IF Get(e.summary.o, "ok", JNull) = JBool(TRUE) THEN "ok"
        ELSE "failed"

\* compute_status(out_root, run_ids), the loop from position i on
RECURSIVE compute_status_from(_, _, _, _)
compute_status_from(root, ids, i, st) ==
    IF i > Len(ids) THEN st
    ELSE LET b == bucket_of(root, ids[i])
         IN  IF b = "raise" THEN [raised |-> "AttributeError"]
             ELSE compute_status_from(root, ids, i + 1,
                                      [st EXCEPT ![b] = Append(@, ids[i])])

compute_status(root, ids) == compute_status_from(root, ids, 1, EmptyStatus)

\* the aggregator's call of compute_status
sweep_compute ==
    /\ status = <<>>
    /\ status' = compute_status(out_root, run_ids)
    /\ UNCHANGED <<out_root, run_ids, now, runs>>
    /\ UNCHANGED <<court_vars, io_vars, ops_vars, tmux_vars, rest_vars>>

\* the lists of at most n run ids
RECURSIVE IdLists(_)
IdLists(n) ==
    IF n = 0 THEN {<<>>}
    ELSE LET less == IdLists(n - 1)
         IN  less \cup {Append(q, r) : q \in {x \in less : Len(x) = n - 1}, r \in RunIds}

InitSweep ==
    /\ out_root \in [RunIds -> Entries_of_root]
    /\ run_ids \in IdLists(MaxIds) \cup {<<"A", "B", "C">>}
    /\ status = <<>>
    /\ now = 0 /\ runs = 0
    /\ NoCourt /\ NoReader /\ NoLocal /\ NoTrain
    /\ ops_args = <<>> /\ env = <<>> /\ config_file = <<>> /\ ldirs = {}
    /\ executed = <<>> /\ started = {} /\ summaries = {} /\ sessions = {}
    /\ launches = <<>> /\ result = <<>> /\ ops_rc = -1
    /\ procs = <<>>

NextSweep == sweep_compute

SpecSweep == InitSweep /\ [][NextSweep]_vars

-----------------------------------------------------------------------------
(* ops validate and ops report, over the local directory --root names *)

\* an entry of the root: nothing, a plain file, or a run directory with some
\* of the required files and a summary.json as the sweep aggregator finds it
LocalEntries ==
    {[kind |-> "none", present |-> {}, summary |-> [k |-> "none"]],
     [kind |-> "file", present |-> {}, summary |-> [k |-> "none"]]}
    \cup {[kind |-> "dir", present |-> f, summary |-> c] :
             f \in SUBSET {"command.sh", "run_metadata.json", "stdout.log"},
             c \in {[k |-> "none"], [k |-> "dir"]} \cup SummaryContents}

InitLocal ==
    /\ ops_args \in {[command |-> c, sub |-> "", missing |-> FALSE, dry_run |-> d,
                      root |-> <<"artifacts", "pod_logs">>] :
                        c \in {"validate", "report"}, d \in BOOLEAN}
    /\ root_dir \in {[k |-> "none"], [k |-> "file"]}
                    \cup {[k |-> "dir", e |-> e] :
                             e \in [{"r1", "r2"} -> LocalEntries]}
    /\ env = [OPS_DEFAULT_HOST |-> "", OPS_REMOTE_OUTPUTS_DIR |-> <<>>, OPS_REMOTE_REPO |-> ""]
    /\ config_file = Absent /\ ldirs = {} /\ executed = <<>> /\ started = {}
    /\ summaries = {} /\ sessions = {} /\ launches = <<>>
    /\ result = <<>> /\ ops_rc = -1
    /\ now = 0 /\ runs = 0
    /\ NoCourt /\ NoReader /\ NoTrain
    /\ procs = <<>>
    /\ out_root = <<>> /\ run_ids = <<>> /\ status = <<>>

NextLocal == ops_main

SpecLocal == InitLocal /\ [][NextLocal]_vars

-----------------------------------------------------------------------------
(* C20: sweep aggregation *)

\* the bucket the priority order gives an entry of the output root
ExpectedBucket(e) ==
    IF e.kind # "dir" THEN "missing_dir"
    ELSE IF e.summary.k = "none" THEN "in_progress"
    ELSE IF e.summary.k = "dir" THEN "in_progress"
    ELSE IF e.summary.k # "dict" THEN "parse_error"
    ELSE IF "ok" \in DOMAIN e.summary.o /\ e.summary.o["ok"] = JBool(TRUE) THEN "ok"
    ELSE "failed"

\* the run ids of a list that fall into bucket b, in the order of the list
InBucket(ids, b) == SelectSeq(ids, LAMBDA r : ExpectedBucket(out_root[r]) = b)

\* C20: for every list of run ids and every state of the output root,
\* compute_status returns without raising, and each run id is in the one
\* bucket the priority order missing_dir, in_progress, parse_error, failed,
\* ok gives it.
C20_TotalClassification ==
    status # <<>> =>
        /\ "raised" \notin DOMAIN status
        /\ \A b \in DOMAIN EmptyStatus : status[b] = InBucket(run_ids, b)

-----------------------------------------------------------------------------
(* A training run (examples/nanogpt/train.py), as its master process: the  *)
(* run contract init, data loading, model setup, the training loop and the *)
(* summary.  Every write_text and os.replace is a step of its own, so that *)
(* a reader of out_dir can look between any two of them.                   *)

\* what a path of out_dir can hold
NoFile == [st |-> "none"]
PartialFile == [st |-> "partial", mode |-> "0644"]
FullFile(doc) == [st |-> "full", mode |-> "0644", doc |-> doc]

\* path.with_suffix(path.suffix + ".tmp")
tmp_of(name) == name \o ".tmp"

ContractFiles ==
    {"command.sh", "run_metadata.json", "config_effective.json",
     "dataset_manifest.json", "summary.json"}

\* Path(out_dir).resolve().name, for a path under the working directory
RECURSIVE resolve(_, _)
resolve(path, acc) ==
    IF path = <<>> THEN acc
    ELSE LET c == Head(path)
         IN  resolve(Tail(path),
                     IF c \in {"", "."} THEN acc
                     ELSE IF c = ".." THEN (IF acc = <<>> THEN acc
                                            ELSE SubSeq(acc, 1, Len(acc) - 1))
                     ELSE Append(acc, c))

run_id_of(path) ==
    LET r == resolve(path, <<>>) IN IF r = <<>> THEN "cwd" ELSE r[Len(r)]

\* the position after the file at position lbl is in place
after_write(lbl) ==
    CASE lbl = "command.sh"            -> "chmod"
      [] lbl = "run_metadata.json"     -> "config_effective.json"
      [] lbl = "config_effective.json" -> "data_loading"
      [] lbl = "dataset_manifest.json" -> "load_shards"
      [] lbl = "summary.json"          -> "exit"

\* the payload each writer builds
payload_of(name) ==
    CASE name = "command.sh" -> [text |-> "train.py"]
      [] name = "run_metadata.json" ->
             [run_id |-> run_id_of(out_dir), run_kind |-> "nanogpt_train"]
      [] name = "config_effective.json" ->
             [out_dir |-> out_dir, dataset |-> train.dataset]
      [] name = "dataset_manifest.json" -> [dataset |-> train.dataset]
      [] name = "summary.json" ->
             LET summary == [run_id |-> run_id_of(out_dir), ok |-> train.run_success]
             IN  IF train.run_error # PyNone
                 THEN [x \in DOMAIN summary \cup {"error"} |->
                          IF x = "error" THEN train.run_error ELSE summary[x]]
                 ELSE summary

train_frame ==
    /\ UNCHANGED <<out_dir, local_vars, now, runs>>
    /\ UNCHANGED <<court_vars, io_vars, ops_vars, tmux_vars, sweep_vars>>

\* tmp.write_text(...): the file is opened, which creates or empties it
tmp_open ==
    /\ train.pc \in ContractFiles /\ train.step = "open"
    /\ out_files' = [out_files EXCEPT ![tmp_of(train.pc)] = PartialFile]
    /\ train' = [train EXCEPT !.step = "write"]
    /\ train_frame

\* tmp.write_text(...): the text is written and the file closed
tmp_write_text ==
    /\ train.pc \in ContractFiles /\ train.step = "write"
    /\ out_files' = [out_files EXCEPT ![tmp_of(train.pc)] = FullFile(payload_of(train.pc))]
    /\ train' = [train EXCEPT !.step = "replace"]
    /\ train_frame

\* os.replace(tmp, path)
os_replace ==
    /\ train.pc \in ContractFiles /\ train.step = "replace"
    /\ out_files' = [out_files EXCEPT ![train.pc] = out_files[tmp_of(train.pc)],
                                      ![tmp_of(train.pc)] = NoFile]
    /\ train' = [train EXCEPT !.pc = after_write(train.pc), !.step = "open"]
    /\ train_frame

\* os.chmod(out_dir_path / "command.sh", 0o755)
os_chmod ==
    /\ train.pc = "chmod"
    /\ out_files' = [out_files EXCEPT !["command.sh"].mode = "0755"]
    /\ train' = [train EXCEPT !.pc = "run_metadata.json"]
    /\ train_frame

\* an exception outside the try statement: traceback, exit status 1
train_raises == [train EXCEPT !.pc = "done", !.rc = 1]

\* the dataset branches, up to the glob of the shards for fineweb10B
data_loading ==
    /\ train.pc = "data_loading"
    /\ \/ /\ train.dataset \in {"shakespeare_char", "c4"}
          /\ \/ train' = [train EXCEPT !.pc = "model_setup"]
             \/ train' = train_raises          \* FileNotFoundError: no train.pt
       \/ /\ train.dataset = "fineweb10B"
          /\ \/ train' = [train EXCEPT !.pc = "dataset_manifest.json"]
             \/ train' = train_raises          \* AssertionError: no shards found
       \/ /\ train.dataset \notin {"shakespeare_char", "c4", "fineweb10B"}
          /\ train' = train_raises             \* ValueError: unknown dataset
    /\ UNCHANGED out_files
    /\ train_frame

\* torch.cat([load_fineweb_shard(s) ...]): a shard with a bad header raises
load_shards ==
    /\ train.pc = "load_shards"
    /\ \/ train' = [train EXCEPT !.pc = "model_setup"]
       \/ train' = train_raises
    /\ UNCHANGED out_files
    /\ train_frame

\* GPT(model_config), model.to(device), the optimizer
model_setup ==
    /\ train.pc = "model_setup"
    /\ \/ train' = [train EXCEPT !.pc = "training"]
       \/ train' = train_raises
    /\ UNCHANGED out_files
    /\ train_frame

\* the try statement: the loop runs to its end, raises an Exception, or is
\* interrupted (KeyboardInterrupt is not an Exception)
training_loop ==
    /\ train.pc = "training"
    /\ \/ train' = [train EXCEPT !.pc = "summary.json", !.run_success = TRUE]
       \/ train' = [train EXCEPT !.pc = "summary.json",
                                 !.run_error = Out("Traceback"), !.raised = TRUE]
       \/ train' = [train EXCEPT !.pc = "summary.json", !.raised = TRUE]
    /\ UNCHANGED out_files
    /\ train_frame

\* the end of the finally block: the exception, if any, goes on
train_exit ==
    /\ train.pc = "exit"
    /\ train' = [train EXCEPT !.pc = "done", !.rc = IF train.raised THEN 1 ELSE 0]
    /\ UNCHANGED out_files
    /\ train_frame

\* out_dir as the configuration gives it, and the datasets: the supported
\* ones and one that is not
InitTrain ==
    /\ out_dir \in {<<"out">>, <<"runs", "r1">>, <<"runs", "r1", "">>, <<".", "runs", "r2">>}
    /\ out_files = [n \in ContractFiles \cup {tmp_of(c) : c \in ContractFiles} |-> NoFile]
    /\ \E d \in {"shakespeare_char", "c4", "fineweb10B", "openwebtext"} :
          train = [pc |-> "command.sh", step |-> "open", dataset |-> d,
                   run_success |-> FALSE, run_error |-> PyNone, raised |-> FALSE,
                   rc |-> -1]
    /\ now = 0 /\ runs = 0
    /\ NoCourt /\ NoReader /\ NoLocal
    /\ ops_args = <<>> /\ env = <<>> /\ config_file = <<>> /\ ldirs = {}
    /\ executed = <<>> /\ started = {} /\ summaries = {} /\ sessions = {}
    /\ launches = <<>> /\ result = <<>> /\ ops_rc = -1
    /\ procs = <<>>
    /\ out_root = <<>> /\ run_ids = <<>> /\ status = <<>>

NextTrain ==
    \/ tmp_open
    \/ tmp_write_text
    \/ os_replace
    \/ os_chmod
    \/ data_loading
    \/ load_shards
    \/ model_setup
    \/ training_loop
    \/ train_exit

SpecTrain == InitTrain /\ [][NextTrain]_vars

-----------------------------------------------------------------------------
(* C21, C22: ops validate and ops report *)

LocalOperated(c) == ops_rc # -1 /\ ops_args.command = c

\* the required files that entry n of the root lacks, in the order of the
\* run contract
Lacks(n) ==
    SelectSeq(<<"command.sh", "run_metadata.json", "summary.json", "stdout.log">>,
              LAMBDA f : IF f = "summary.json" THEN root_dir.e[n].summary.k = "none"
                         ELSE f \notin root_dir.e[n].present)

Times(q, n) == Cardinality({i \in DOMAIN q : q[i] = n})

\* C21: validate exits 2 on a root that does not exist; on a root directory
\* it exits 0, every sub-directory is either once in `complete`, when it
\* lacks no required file, or a key of `missing`, mapped to the required
\* files it lacks in required-file order, and an entry that is not a
\* directory is in neither.
C21_ValidatePartitionsRunDirectories ==
    LocalOperated("validate") =>
        /\ root_dir.k = "none" => ops_rc = 2
        /\ root_dir.k = "dir" =>
              /\ ops_rc = 0
              /\ result.ok
              /\ \A n \in DOMAIN root_dir.e :
                    LET in_complete == Times(result.complete, n) > 0
                        in_missing  == n \in DOMAIN result.missing
                    IN  IF root_dir.e[n].kind = "dir"
                        THEN /\ in_complete # in_missing
                             /\ in_complete <=> Lacks(n) = <<>>
                             /\ in_complete => Times(result.complete, n) = 1
                             /\ in_missing => result.missing[n] = Lacks(n)
                        ELSE ~in_complete /\ ~in_missing

\* validate has run over a root with a run that lacks only stdout.log, next
\* to a complete run
C21_Witness ==
    /\ LocalOperated("validate")
    /\ root_dir.k = "dir"
    /\ root_dir.e["r1"].kind = "dir" /\ Lacks("r1") = <<"stdout.log">>
    /\ root_dir.e["r2"].kind = "dir" /\ Lacks("r2") = <<>>
    /\ result.complete = <<"r2">>
    /\ result.missing = [n \in {"r1"} |-> <<"stdout.log">>]

\* the run directories whose summary.json is a JSON object
Usable == {n \in DOMAIN root_dir.e : /\ root_dir.e[n].kind = "dir"
                                     /\ root_dir.e[n].summary.k = "dict"}

\* every summary.json under the root is a file of text
SummariesAreText ==
    \A n \in DOMAIN root_dir.e : root_dir.e[n].summary.k \notin {"dir", "unreadable"}

\* C22: over a root directory whose summaries are text, report exits 0 with
\* ok = true whatever the summaries hold, `count` is the number of rows, and
\* there is one row per run directory whose summary is a JSON object.
C22_ReportSkipsUnusableSummaries ==
    (LocalOperated("report") /\ root_dir.k = "dir" /\ SummariesAreText) =>
        /\ ops_rc = 0
        /\ "ok" \in DOMAIN result /\ result.ok
        /\ result.count = Len(result.rows)
        /\ result.count = Cardinality(Usable)
        /\ \A n \in Usable :
              Cardinality({i \in DOMAIN result.rows : result.rows[i].run_id = n}) = 1

-----------------------------------------------------------------------------
(* C23, C24, C29: the run contract of a training run *)

Terminated == train.pc = "done"

\* the last component of the path out_dir, as written
LastComponent ==
    LET named == SelectSeq(out_dir, LAMBDA c : c # "") IN named[Len(named)]

InPlace(name) == out_files[name].st = "full"

\* C23: after a run of a supported dataset that exits with 0, out_dir holds
\* the five files of the run contract, command.sh is executable, the
\* summary has ok = true and no error, and run_id in run_metadata.json and
\* summary.json is the last component of out_dir.
C23_RunContractComplete ==
    (/\ Terminated /\ train.rc = 0
     /\ train.dataset \in {"shakespeare_char", "c4", "fineweb10B"}) =>
        /\ \A name \in ContractFiles : InPlace(name)
        /\ out_files["command.sh"].mode = "0755"
        /\ out_files["summary.json"].doc.ok
        /\ "error" \notin DOMAIN out_files["summary.json"].doc
        /\ out_files["run_metadata.json"].doc.run_id = LastComponent
        /\ out_files["summary.json"].doc.run_id = LastComponent

\* C24: at every instant each file of the run contract is either not there
\* or there in full, and command.sh, when it is there, has mode 0755.
C24_ArtifactsAppearWholeAndExecutable ==
    /\ \A name \in ContractFiles : out_files[name].st \in {"none", "full"}
    /\ out_files["command.sh"].st # "none" => out_files["command.sh"].mode = "0755"

\* C29: a run that has written run_metadata.json and has terminated has
\* written summary.json, with ok = true exactly when the loop ran to its end
\* (exit status 0) and with an error exactly when an exception was raised,
\* so that the run directory does not look in progress.
C29_TerminatedRunHasSummary ==
    (Terminated /\ InPlace("run_metadata.json")) =>
        /\ InPlace("summary.json")
        /\ out_files["summary.json"].doc.ok <=> train.rc = 0
        /\ "error" \in DOMAIN out_files["summary.json"].doc <=> train.rc # 0

-----------------------------------------------------------------------------
(* C26: the checks of validate_evidence accumulate *)

\* the evidence o, judged as evidence of phase p
AsPhase(o, p) ==
    [x \in DOMAIN o \cup {"phase_id"} |-> IF x = "phase_id" THEN JStr(Text(p)) ELSE o[x]]

RECURSIVE Flatten(_)
Flatten(qs) == IF qs = <<>> THEN <<>> ELSE Head(qs) \o Flatten(Tail(qs))

\* the violation codes of every check, each evaluated on its own, in the
\* order of the checks: the checks of the evidence, the linkage to the
\* flow-start snapshot, the drift checks when the snapshot parsed, and the
\* rules of the expected phase
CodesOfAllChecks ==
    LET p      == args.phase
        fs     == load_flow_start(E)
        start  == fs.payload.o
        judged == AsPhase(E, p)
        seed   == CHOOSE h \in HashSeeds : TRUE
    IN  Flatten(<<check_required_fields(E).v,
                  check_phase_identity(E, p).v,
                  check_intent_mode(E).v,
                  check_contract_intent(E, p).v,
                  check_command_whitelist(E, p).v,
                  check_law_coverage(E, p, seed).v,
                  check_phase_status(E).v,
                  check_command_rc(E).v,
                  check_config_sha(E).v,
                  fs.v>>
                \o (IF fs.payload.truthy
                    THEN <<check_flow_id(E, start).v,
                           check_config_drift(E, start).v,
                           check_target_drift(judged, start).v,
                           check_fallback_drift(judged, start).v>>
                    ELSE <<>>)
                \o <<check_target_resolved(judged).v,
                     check_repo_url(judged).v,
                     check_teardown_mode(judged).v>>)

\* C26: for an expected phase of the phase table, the verdict lists the
\* violation codes of every check the evidence fails, whatever the other
\* checks found, in the order of the checks; only the drift checks depend
\* on another outcome, the flow-start snapshot having parsed.
C26_EveryFailedCheckIsReported ==
    Validated => payload.violations = CodesOfAllChecks

-----------------------------------------------------------------------------
(* C27, C28, C30: runs submit and runs status *)

\* runs submit has run and reached its loop over the rows
Submitted ==
    /\ runs > 0 /\ Submit /\ ConfigIsObject /\ config_file.doc.runs.k = "list"
    /\ "traceback" \notin DOMAIN result

\* the rows of the config that are objects, in config order
ObjectRows == SelectSeq(config_file.doc.runs.e, LAMBDA r : r.k = "dict")

\* what tells the run of a row from the others: its run_id, or that the id
\* is generated
KeyOfId(id)  == IF Len(id) = 7 THEN <<"generated">> ELSE id
KeyOfRow(r)  == IF "run_id" \in DOMAIN r.o THEN r.o.run_id ELSE <<"generated">>

\* the commands of the log that begin the handling of a row: the summary
\* check, or the dispatch when no check is made
Visits ==
    SelectSeq(executed,
              LAMBDA x : x.command.sh.verb =
                            (IF ops_args.force THEN "dispatch" ELSE "test_summary"))

\* C27: the commands runs submit executes handle the object rows in config
\* order, one row at a time, a row's dispatch right after its summary check;
\* a dispatch that returns non-zero is the last command of the invocation,
\* which then ends with that return code; no row is dispatched twice, and
\* the runs started before the failure stay started.
C27_SubmitStopsAtFirstFailure ==
    Submitted =>
        /\ Len(Visits) <= Len(ObjectRows)
        /\ \A i \in 1..Len(Visits) :
              KeyOfId(Visits[i].command.sh.run_dir.id) = KeyOfRow(ObjectRows[i])
        /\ Cardinality(Dispatches(executed)) <= Len(Visits)
        /\ \A i \in 1..Len(executed) :
              /\ executed[i].command.sh.verb \in {"test_summary", "dispatch"}
              /\ (i \in Dispatches(executed) /\ ~ops_args.force) =>
                    /\ i > 1
                    /\ executed[i - 1].command.sh.verb = "test_summary"
                    /\ executed[i - 1].command.sh.run_dir = executed[i].command.sh.run_dir
                    /\ executed[i - 1].returncode # 0
              /\ (i \in Dispatches(executed) /\ executed[i].returncode # 0) =>
                    /\ i = Len(executed)
                    /\ ops_rc = executed[i].returncode
              /\ ( /\ i \in Dispatches(executed) /\ executed[i].returncode = 0
                   /\ executed[i].command.sh.session # "" ) =>
                    executed[i].command.sh.run_dir \in started

\* the second row's dispatch failed after the first row was dispatched
C27_Witness ==
    /\ Submitted /\ Len(ObjectRows) = 2
    /\ Cardinality(Dispatches(executed)) = 2
    /\ executed[Len(executed)].returncode # 0
    /\ \E i \in Dispatches(executed) :
          /\ executed[i].returncode = 0
          /\ executed[i].command.sh.run_dir \in started
    /\ ops_rc # 0

StatusChecked ==
    /\ runs > 0 /\ Operation = <<"runs", "status">> /\ ~ops_args.missing
    /\ ~ops_args.dry_run

\* C28: runs status runs the fetch of summary.json and then the tail of
\* stdout.log; it reports ok = true and exits 0 exactly when the fetch
\* returned zero, whatever the tail returned, with summary null when the
\* fetched text does not parse; when the fetch failed it reports ok = false
\* with the error and no summary and exits 1.
C28_StatusOkIffSummaryFetched ==
    StatusChecked =>
        /\ Len(executed) = 2
        /\ executed[1].command.sh.verb = "cat_summary"
        /\ executed[2].command.sh.verb = "tail_stdout"
        /\ result.ok <=> executed[1].returncode = 0
        /\ ops_rc = (IF executed[1].returncode = 0 THEN 0 ELSE 1)
        /\ result.ok => /\ result.error = PyNone
                        /\ result.summary \in {PyNone, [summary |-> "parsed"]}
        /\ ~result.ok => /\ result.error # PyNone
                         /\ result.summary = PyNone

\* the fetch succeeded, the summary did not parse and the tail failed
C28_Witness ==
    /\ StatusChecked
    /\ executed[1].returncode = 0 /\ executed[2].returncode # 0
    /\ result.ok /\ result.summary = PyNone /\ ops_rc = 0

\* runs submit, not a dry run, has returned 0
SubmitSucceeded == Submitted /\ ~ops_args.dry_run /\ ops_rc = 0

Listed(q, key) == \E i \in 1..Len(q) : KeyOfId(q[i]) = key

\* a run id is skipped only without --force and when the check of its
\* summary.json returned 0 and the file is there; with --force none is
SkippedOnlyWhenComplete ==
    /\ \A i \in 1..Len(result.skipped) :
          /\ ~ops_args.force
          /\ \E j \in 1..Len(executed) :
                /\ executed[j].command.sh.verb = "test_summary"
                /\ executed[j].command.sh.run_dir.id = result.skipped[i]
                /\ executed[j].returncode = 0
                /\ executed[j].command.sh.run_dir \in summaries
    /\ ops_args.force => result.skipped = <<>>

Disjoint(q1, q2) == \A i \in 1..Len(q1) : \A j \in 1..Len(q2) : q1[i] # q2[j]

\* C30 as stated: after a successful submission every object row has its run
\* id in exactly one of `queued` and `skipped`, the lists are disjoint and
\* their lengths sum to the number of object rows; a run id is skipped only
\* without --force and with its summary.json there.
C30_EveryRowQueuedOrSkipped ==
    SubmitSucceeded =>
        /\ Len(result.queued) + Len(result.skipped) = Len(ObjectRows)
        /\ Disjoint(result.queued, result.skipped)
        /\ \A i \in 1..Len(ObjectRows) :
              Listed(result.queued, KeyOfRow(ObjectRows[i]))
                 # Listed(result.skipped, KeyOfRow(ObjectRows[i]))
        /\ SkippedOnlyWhenComplete

\* no two object rows of the config have the same run id
DistinctRunIds ==
    \A i, j \in 1..Len(ObjectRows) :
        i # j => KeyOfRow(ObjectRows[i]) # KeyOfRow(ObjectRows[j])

\* C30, amended: the lengths of `queued` and `skipped` sum to the number of
\* object rows and every object row has its run id in one of them; when the
\* run ids of the rows are distinct, in exactly one, and the lists are
\* disjoint; a run id is skipped only without --force and with its
\* summary.json there.
C30_EveryRowQueuedOrSkippedOnce ==
    SubmitSucceeded =>
        /\ Len(result.queued) + Len(result.skipped) = Len(ObjectRows)
        /\ \A i \in 1..Len(ObjectRows) :
              \/ Listed(result.queued, KeyOfRow(ObjectRows[i]))
              \/ Listed(result.skipped, KeyOfRow(ObjectRows[i]))
        /\ DistinctRunIds =>
              /\ Disjoint(result.queued, result.skipped)
              /\ \A i \in 1..Len(ObjectRows) :
                    Listed(result.queued, KeyOfRow(ObjectRows[i]))
                       # Listed(result.skipped, KeyOfRow(ObjectRows[i]))
        /\ SkippedOnlyWhenComplete

\* a submission of two rows that skipped one and queued the other
C30_Witness ==
    /\ SubmitSucceeded /\ Len(ObjectRows) = 2 /\ DistinctRunIds
    /\ Len(result.queued) = 1 /\ Len(result.skipped) = 1

====
